---- MODULE Spec2Model ----
(***************************************************************************)
(* Model of cudf's sorted-table merge (cpp/src/merge/merge.cu and          *)
(* cpp/include/cudf/detail/merge.cuh): the tagged-index comparator, the    *)
(* index merge, the bitmask kernel, the column merger, the pairwise merge  *)
(* and the N-way scheduler built on a priority queue.                      *)
(*                                                                         *)
(* Row indices are 0-based as in the source; TLA+ sequences are 1-based,   *)
(* so row r of a column is data[r + 1].                                    *)
(***************************************************************************)
EXTENDS Integers, Sequences, FiniteSets, TLC

(***************************************************************************)
(* Bounds of the explored inputs.                                          *)
(***************************************************************************)
MaxTables == 3
MaxRows == 2
MaxTotalRows == 3
MaxKey == 2
\* mask words of the largest kernel launch followed thread by thread
MaxWords == 2

(***************************************************************************)
(* Program constants.                                                      *)
(***************************************************************************)
warpSize == 32

LEFT == "LEFT"
RIGHT == "RIGHT"
ASCENDING == "ASCENDING"
DESCENDING == "DESCENDING"
BEFORE == "BEFORE"
AFTER == "AFTER"
INT32 == "INT32"
FLOAT64 == "FLOAT64"
STRUCT == "STRUCT"
LIST == "LIST"
STRING_VIEW == "STRING"
DICTIONARY32 == "DICTIONARY32"

\* an absent table: a table pointer is <<>> when null and <<tbl>> when it
\* holds the table tbl
NoTable == <<>>

Min(S) == CHOOSE x \in S : \A y \in S : x <= y

SumSeq(s) ==
  LET RECURSIVE Go(_)
      Go(i) == IF i > Len(s) THEN 0 ELSE s[i] + Go(i + 1)
  IN Go(1)

(***************************************************************************)
(* Columns and tables.  A column carries a type, a size, a data buffer, an *)
(* optional null mask (a sequence of 32-bit words, each word the set of    *)
(* its set bit positions) and a null count.  A table (and a table_view) is *)
(* a sequence of columns.                                                  *)
(***************************************************************************)
num_bitmask_words(n) == (n + warpSize - 1) \div warpSize

word_index(bit) == bit \div warpSize

intra_word_index(bit) == bit % warpSize

\* the mask whose bit i (0-based) is valid[i + 1]
MaskOf(valid) ==
  [w \in 1..num_bitmask_words(Len(valid)) |->
     {b \in 0..(warpSize - 1) :
        /\ (w - 1) * warpSize + b < Len(valid)
        /\ valid[(w - 1) * warpSize + b + 1]}]

MakeColumn(type, data, valid, nullable) ==
  [type |-> type,
   size |-> Len(data),
   data |-> data,
   nullable |-> nullable,
   mask |-> IF nullable THEN MaskOf(valid) ELSE <<>>,
   null_count |-> Cardinality({i \in 1..Len(valid) : ~valid[i]}),
   children |-> <<>>]

\* a struct column: no data buffer of its own, one child column per field
MakeStructColumn(children, valid, nullable) ==
  [type |-> STRUCT,
   size |-> Len(valid),
   data |-> <<>>,
   nullable |-> nullable,
   mask |-> IF nullable THEN MaskOf(valid) ELSE <<>>,
   null_count |-> Cardinality({i \in 1..Len(valid) : ~valid[i]}),
   children |-> children]

\* the elements of a set of integers in ascending order
RECURSIVE SortedSeq(_)
SortedSeq(S) == IF S = {} THEN <<>> ELSE <<Min(S)>> \o SortedSeq(S \ {Min(S)})

\* the 0-based position of key in the keys column keys, 0 if it holds no such key
index_of_key(keys, key) ==
  IF \E k \in 1..keys.size : keys.data[k] = key
    THEN (CHOOSE k \in 1..keys.size : keys.data[k] = key) - 1
    ELSE 0

\* a keys column: the distinct values of a dictionary, sorted, none of them null
MakeKeysColumn(S) ==
  [type |-> INT32, size |-> Cardinality(S), data |-> SortedSeq(S), nullable |-> FALSE,
   mask |-> <<>>, null_count |-> 0, children |-> <<>>]

\* a dictionary column: its data buffer holds, per row, the index of the
\* row's value in the keys column, which is the only child
MakeDictionaryColumn(values, valid, nullable) ==
  LET keys == MakeKeysColumn({values[i] : i \in {j \in 1..Len(values) : valid[j]}})
  IN [type |-> DICTIONARY32,
      size |-> Len(values),
      data |-> [i \in 1..Len(values) |->
                  IF valid[i] THEN index_of_key(keys, values[i]) ELSE 0],
      nullable |-> nullable,
      mask |-> IF nullable THEN MaskOf(valid) ELSE <<>>,
      null_count |-> Cardinality({i \in 1..Len(valid) : ~valid[i]}),
      children |-> <<keys>>]

\* a strings column: its data buffer holds the rows' strings, each the
\* sequence of its characters (the offsets are left implicit)
MakeStringsColumn(strings, valid, nullable) ==
  MakeColumn(STRING_VIEW, strings, valid, nullable)

has_nulls(col) == col.null_count > 0

is_valid_nocheck(col, row) ==
  intra_word_index(row) \in col.mask[word_index(row) + 1]

is_valid(col, row) == ~col.nullable \/ is_valid_nocheck(col, row)

num_columns(tbl) == Len(tbl)

num_rows(tbl) == IF Len(tbl) = 0 THEN 0 ELSE tbl[1].size

select(tbl, cols) == [k \in 1..Len(cols) |-> tbl[cols[k] + 1]]

have_same_types(a, b) ==
  /\ Len(a) = Len(b)
  /\ \A c \in 1..Len(a) : a[c].type = b[c].type

\* the number of rows of a column whose validity bit is clear
CountNulls(col) == Cardinality({r \in 0..(col.size - 1) : ~is_valid(col, r)})

(***************************************************************************)
(* Lexicographic row comparators of the row-operator library               *)
(* (self_comparator::less and two_table_comparator::less).  They answer    *)
(* whether the first row sorts strictly before the second one.             *)
(***************************************************************************)
\* the ordering of element r1 of column c1 against element r2 of column c2
ElementCompare(c1, r1, c2, r2, null_prec) ==
  LET n1 == ~is_valid(c1, r1)
      n2 == ~is_valid(c2, r2)
  IN IF n1 /\ n2 THEN "EQUIVALENT"
     ELSE IF n1 THEN (IF null_prec = BEFORE THEN "LESS" ELSE "GREATER")
     ELSE IF n2 THEN (IF null_prec = BEFORE THEN "GREATER" ELSE "LESS")
     ELSE IF c1.data[r1 + 1] < c2.data[r2 + 1] THEN "LESS"
     ELSE IF c1.data[r1 + 1] > c2.data[r2 + 1] THEN "GREATER"
     ELSE "EQUIVALENT"

RowCompare(t1, r1, t2, r2, col_order, null_prec) ==
  LET diff == {k \in 1..Len(t1) :
                 ElementCompare(t1[k], r1, t2[k], r2, null_prec[k]) # "EQUIVALENT"}
  IN IF diff = {} THEN "EQUIVALENT"
     ELSE LET k == Min(diff)
              st == ElementCompare(t1[k], r1, t2[k], r2, null_prec[k])
          IN IF col_order[k] = ASCENDING THEN st
             ELSE IF st = "LESS" THEN "GREATER" ELSE "LESS"

\* self_comparator{table, column_order, null_precedence}.less(i, j)
self_comparator(tbl, col_order, null_prec, i, j) ==
  RowCompare(tbl, i, tbl, j, col_order, null_prec) = "LESS"

\* two_table_comparator{left, right, ...}.less on strongly typed indices:
\* an index is [tbl |-> "lhs" | "rhs", idx |-> row]; the first operand is
\* looked up in the table its type names, and so is the second
two_table_comparator(left, right, col_order, null_prec, a, b) ==
  LET ta == IF a.tbl = "lhs" THEN left ELSE right
      tb == IF b.tbl = "lhs" THEN left ELSE right
  IN RowCompare(ta, a.idx, tb, b.idx, col_order, null_prec) = "LESS"

lhs_index_type(i) == [tbl |-> "lhs", idx |-> i]

rhs_index_type(i) == [tbl |-> "rhs", idx |-> i]

(***************************************************************************)
(* merge.cuh: the tagged comparator.  A tagged index is <<side, row>>.     *)
(***************************************************************************)
row_lexicographic_tagged_comparator_swapped(left, right, col_order, null_prec, lhs, rhs) ==
  LET l_side == lhs[1]
      l_indx == lhs[2]
      r_side == rhs[1]
      r_indx == rhs[2]
  IN IF l_side = LEFT /\ r_side = RIGHT
       THEN two_table_comparator(left, right, col_order, null_prec,
                                 lhs_index_type(l_indx), rhs_index_type(r_indx))
     ELSE IF l_side = RIGHT /\ r_side = LEFT
       THEN two_table_comparator(left, right, col_order, null_prec,
                                 lhs_index_type(r_indx), rhs_index_type(l_indx))
     ELSE IF l_side = LEFT /\ r_side = LEFT
       THEN self_comparator(left, col_order, null_prec, l_indx, r_indx)
     ELSE IF l_side = RIGHT /\ r_side = RIGHT
       THEN self_comparator(right, col_order, null_prec, l_indx, r_indx)
     ELSE FALSE

row_lexicographic_tagged_comparator_negated(left, right, col_order, null_prec, lhs, rhs) ==
  LET l_side == lhs[1]
      l_indx == lhs[2]
      r_side == rhs[1]
      r_indx == rhs[2]
  IN IF l_side = LEFT /\ r_side = RIGHT
       THEN two_table_comparator(left, right, col_order, null_prec,
                                 lhs_index_type(l_indx), rhs_index_type(r_indx))
     ELSE IF l_side = RIGHT /\ r_side = LEFT
       THEN ~two_table_comparator(left, right, col_order, null_prec,
                                  lhs_index_type(r_indx), rhs_index_type(l_indx))
     ELSE IF l_side = LEFT /\ r_side = LEFT
       THEN self_comparator(left, col_order, null_prec, l_indx, r_indx)
     ELSE IF l_side = RIGHT /\ r_side = RIGHT
       THEN self_comparator(right, col_order, null_prec, l_indx, r_indx)
     ELSE FALSE

row_lexicographic_tagged_comparator(left, right, col_order, null_prec, lhs, rhs) ==
  LET l_side == lhs[1]
      l_indx == lhs[2]
      r_side == rhs[1]
      r_indx == rhs[2]
  IN IF l_side = LEFT /\ r_side = RIGHT
       THEN two_table_comparator(left, right, col_order, null_prec,
                                 lhs_index_type(l_indx), rhs_index_type(r_indx))
     ELSE IF l_side = RIGHT /\ r_side = LEFT
       THEN two_table_comparator(left, right, col_order, null_prec,
                                 rhs_index_type(l_indx), lhs_index_type(r_indx))
     ELSE IF l_side = LEFT /\ r_side = LEFT
       THEN self_comparator(left, col_order, null_prec, l_indx, r_indx)
     ELSE IF l_side = RIGHT /\ r_side = RIGHT
       THEN self_comparator(right, col_order, null_prec, l_indx, r_indx)
     ELSE FALSE

(***************************************************************************)
(* merge.cu: generate_merged_indices.                                      *)
(***************************************************************************)
side_index_generator(side, n) == [i \in 1..n |-> <<side, i - 1>>]

\* thrust::merge(first1, last1, first2, last2, result, comp): the stable
\* two-way merge; an element of the second range is taken only when comp
\* says it is strictly before the head of the first range
RECURSIVE thrust_merge(_, _, _, _, _, _)
thrust_merge(a, b, left, right, col_order, null_prec) ==
  IF a = <<>> THEN b
  ELSE IF b = <<>> THEN a
  ELSE IF row_lexicographic_tagged_comparator(left, right, col_order, null_prec,
                                              Head(b), Head(a))
    THEN <<Head(b)>> \o thrust_merge(a, Tail(b), left, right, col_order, null_prec)
    ELSE <<Head(a)>> \o thrust_merge(Tail(a), b, left, right, col_order, null_prec)

generate_merged_indices_both_right(left_table, right_table, col_order, null_prec) ==
  LET left_size == num_rows(left_table)
      right_size == num_rows(right_table)
  IN thrust_merge(side_index_generator(RIGHT, left_size),
                  side_index_generator(RIGHT, right_size),
                  left_table, right_table, col_order, null_prec)

generate_merged_indices_right_range_first(left_table, right_table, col_order, null_prec) ==
  LET left_size == num_rows(left_table)
      right_size == num_rows(right_table)
  IN thrust_merge(side_index_generator(RIGHT, right_size),
                  side_index_generator(LEFT, left_size),
                  left_table, right_table, col_order, null_prec)

generate_merged_indices(left_table, right_table, col_order, null_prec) ==
  LET left_size == num_rows(left_table)
      right_size == num_rows(right_table)
  IN thrust_merge(side_index_generator(LEFT, left_size),
                  side_index_generator(RIGHT, right_size),
                  left_table, right_table, col_order, null_prec)

(***************************************************************************)
(* merge.cu: the bitmask kernel and its launcher.                          *)
(***************************************************************************)
\* One launch of the kernel over num_destination_rows rows, as a function of
\* its arguments.  The grid holds at least one thread per destination row,
\* and with the row counts of the merges explored here the grid stride takes
\* every thread past the last row, so every thread runs the loop body at
\* most once; the warp that owns rows 32w .. 32w+31 ballots the source
\* validity of its active lanes and lane 0 stores the word.  The launch is
\* followed thread by thread further down.
materialize_merged_bitmask_kernel(left_have_valids, right_have_valids, left_dcol, right_dcol, out_validity, num_destination_rows, merged_indices) ==
  LET source_bit_is_valid(destination_row) ==
        LET src_side == merged_indices[destination_row + 1][1]
            src_row == merged_indices[destination_row + 1][2]
            from_left == (src_side = LEFT)
        IN IF left_have_valids /\ from_left
             THEN is_valid_nocheck(left_dcol, src_row)
           ELSE IF right_have_valids /\ ~from_left
             THEN is_valid_nocheck(right_dcol, src_row)
           ELSE TRUE
      active_threads(w) ==
        {lane \in 0..(warpSize - 1) : w * warpSize + lane < num_destination_rows}
      result_mask(w) ==
        {lane \in active_threads(w) : source_bit_is_valid(w * warpSize + lane)}
  IN [w \in 1..Len(out_validity) |->
        IF 0 \in active_threads(w - 1) THEN result_mask(w - 1) ELSE out_validity[w]]

\* what a column_merger call yields when it throws instead of returning
CUDF_FAIL(what) ==
  [type |-> "CUDF_FAIL", size |-> 0, data |-> <<what>>, nullable |-> FALSE,
   mask |-> <<>>, null_count |-> 0, children |-> <<>>]

threw(col) == col.type = "CUDF_FAIL"

should_never_be_called ==
  "materialize_merged_bitmask_kernel<false, false>() should never be called."

\* returns [failed, mask]: failed is the CUDF_FAIL of the <false, false> case
materialize_bitmask(left_col, right_col, out_validity, num_elements, merged_indices) ==
  IF has_nulls(left_col)
    THEN IF has_nulls(right_col)
           THEN [failed |-> FALSE,
                 mask |-> materialize_merged_bitmask_kernel(TRUE, TRUE, left_col, right_col,
                            out_validity, num_elements, merged_indices)]
           ELSE [failed |-> FALSE,
                 mask |-> materialize_merged_bitmask_kernel(TRUE, FALSE, left_col, right_col,
                            out_validity, num_elements, merged_indices)]
    ELSE IF has_nulls(right_col)
           THEN [failed |-> FALSE,
                 mask |-> materialize_merged_bitmask_kernel(FALSE, TRUE, left_col, right_col,
                            out_validity, num_elements, merged_indices)]
           ELSE [failed |-> TRUE, mask |-> out_validity]

\* set_null_mask(mask, 0, size, true): every bit of rows 0 .. size-1 set
set_null_mask_valid(size) == MaskOf([i \in 1..size |-> TRUE])

(***************************************************************************)
(* merge.cu: column_merger, fixed-width columns.                           *)
(***************************************************************************)
column_merger_left_null_count(lcol, rcol, row_order) ==
  LET lsz == lcol.size
      merged_size == lsz + rcol.size
      like == IF has_nulls(lcol) THEN lcol ELSE rcol
      init_mask == IF like.nullable THEN set_null_mask_valid(merged_size) ELSE <<>>
      data == [i \in 1..Len(row_order) |->
                 IF row_order[i][1] = LEFT THEN lcol.data[row_order[i][2] + 1]
                                           ELSE rcol.data[row_order[i][2] + 1]]
      mask == IF has_nulls(lcol) \/ has_nulls(rcol)
                THEN materialize_bitmask(lcol, rcol, init_mask, merged_size, row_order).mask
                ELSE init_mask
  IN [type |-> like.type,
      size |-> merged_size,
      data |-> data,
      nullable |-> like.nullable,
      mask |-> mask,
      null_count |-> lcol.null_count,
      children |-> <<>>]

column_merger_left_size(lcol, rcol, row_order) ==
  LET lsz == lcol.size
      merged_size == lsz
      like == IF has_nulls(lcol) THEN lcol ELSE rcol
      init_mask == IF like.nullable THEN set_null_mask_valid(merged_size) ELSE <<>>
      data == [i \in 1..merged_size |->
                 IF row_order[i][1] = LEFT THEN lcol.data[row_order[i][2] + 1]
                                           ELSE rcol.data[row_order[i][2] + 1]]
  IN [type |-> like.type,
      size |-> merged_size,
      data |-> data,
      nullable |-> like.nullable,
      mask |-> init_mask,
      null_count |-> lcol.null_count + rcol.null_count,
      children |-> <<>>]

column_merger_no_bitmask(lcol, rcol, row_order) ==
  LET lsz == lcol.size
      merged_size == lsz + rcol.size
      like == IF has_nulls(lcol) THEN lcol ELSE rcol
      init_mask == IF like.nullable THEN set_null_mask_valid(merged_size) ELSE <<>>
      data == [i \in 1..Len(row_order) |->
                 IF row_order[i][1] = LEFT THEN lcol.data[row_order[i][2] + 1]
                                           ELSE rcol.data[row_order[i][2] + 1]]
  IN [type |-> like.type,
      size |-> merged_size,
      data |-> data,
      nullable |-> like.nullable,
      mask |-> init_mask,
      null_count |-> lcol.null_count + rcol.null_count,
      children |-> <<>>]

column_merger_concatenated_data(lcol, rcol, row_order) ==
  LET lsz == lcol.size
      merged_size == lsz + rcol.size
      like == IF has_nulls(lcol) THEN lcol ELSE rcol
      init_mask == IF like.nullable THEN set_null_mask_valid(merged_size) ELSE <<>>
      mask == IF has_nulls(lcol) \/ has_nulls(rcol)
                THEN materialize_bitmask(lcol, rcol, init_mask, merged_size, row_order).mask
                ELSE init_mask
  IN [type |-> like.type,
      size |-> merged_size,
      data |-> lcol.data \o rcol.data,
      nullable |-> like.nullable,
      mask |-> mask,
      null_count |-> lcol.null_count + rcol.null_count,
      children |-> <<>>]

column_merger_mask_uninitialized(lcol, rcol, row_order) ==
  LET lsz == lcol.size
      merged_size == lsz + rcol.size
      like == IF has_nulls(lcol) THEN lcol ELSE rcol
      init_mask == IF like.nullable
                     THEN [w \in 1..num_bitmask_words(merged_size) |-> {}]
                     ELSE <<>>
      data == [i \in 1..Len(row_order) |->
                 IF row_order[i][1] = LEFT THEN lcol.data[row_order[i][2] + 1]
                                           ELSE rcol.data[row_order[i][2] + 1]]
      mask == IF has_nulls(lcol) \/ has_nulls(rcol)
                THEN materialize_bitmask(lcol, rcol, init_mask, merged_size, row_order).mask
                ELSE init_mask
  IN [type |-> like.type,
      size |-> merged_size,
      data |-> data,
      nullable |-> like.nullable,
      mask |-> mask,
      null_count |-> lcol.null_count + rcol.null_count,
      children |-> <<>>]

column_merger(lcol, rcol, row_order) ==
  LET lsz == lcol.size
      merged_size == lsz + rcol.size
      \* allocate_like(lcol.has_nulls() ? lcol : rcol, merged_size, RETAIN)
      like == IF has_nulls(lcol) THEN lcol ELSE rcol
      \* set_null_mask(null_mask, 0, size, true); no effect without a mask
      init_mask == IF like.nullable THEN set_null_mask_valid(merged_size) ELSE <<>>
      \* thrust::transform over row_order
      data == [i \in 1..Len(row_order) |->
                 IF row_order[i][1] = LEFT THEN lcol.data[row_order[i][2] + 1]
                                           ELSE rcol.data[row_order[i][2] + 1]]
      bitmask == IF has_nulls(lcol) \/ has_nulls(rcol)
                   THEN materialize_bitmask(lcol, rcol, init_mask, merged_size, row_order)
                   ELSE [failed |-> FALSE, mask |-> init_mask]
  IN IF bitmask.failed THEN CUDF_FAIL(should_never_be_called)
     ELSE [type |-> like.type,
           size |-> merged_size,
           data |-> data,
           nullable |-> like.nullable,
           mask |-> bitmask.mask,
           null_count |-> lcol.null_count + rcol.null_count,
           children |-> <<>>]

(***************************************************************************)
(* merge.cu: column_merger for string and dictionary columns.              *)
(***************************************************************************)
\* strings::detail::merge: the strings of the two columns in the order of
\* row_order, with an all-valid mask when either column has nulls
strings_merge(lcol, rcol, row_order) ==
  LET merged_size == lcol.size + rcol.size
      with_mask == has_nulls(lcol) \/ has_nulls(rcol)
  IN [type |-> STRING_VIEW,
      size |-> merged_size,
      data |-> [i \in 1..Len(row_order) |->
                  IF row_order[i][1] = LEFT THEN lcol.data[row_order[i][2] + 1]
                                            ELSE rcol.data[row_order[i][2] + 1]],
      nullable |-> with_mask,
      mask |-> IF with_mask THEN set_null_mask_valid(merged_size) ELSE <<>>,
      null_count |-> lcol.null_count + rcol.null_count,
      children |-> <<>>]

\* dictionary::detail::merge: the indices of the two columns in the order of
\* row_order over a copy of the left column's keys, with a mask left for the
\* caller to fill when either column has nulls
dictionary_merge(lcol, rcol, row_order) ==
  LET merged_size == lcol.size + rcol.size
      with_mask == has_nulls(lcol) \/ has_nulls(rcol)
  IN [type |-> DICTIONARY32,
      size |-> merged_size,
      data |-> [i \in 1..Len(row_order) |->
                  IF row_order[i][1] = LEFT THEN lcol.data[row_order[i][2] + 1]
                                            ELSE rcol.data[row_order[i][2] + 1]],
      nullable |-> with_mask,
      mask |-> IF with_mask THEN [w \in 1..num_bitmask_words(merged_size) |-> {}]
                            ELSE <<>>,
      null_count |-> lcol.null_count + rcol.null_count,
      children |-> lcol.children]

\* specialization for strings
column_merger_string(lcol, rcol, row_order) ==
  LET column == strings_merge(lcol, rcol, row_order)
      bitmask == IF has_nulls(lcol) \/ has_nulls(rcol)
                   THEN materialize_bitmask(lcol, rcol, column.mask, column.size, row_order)
                   ELSE [failed |-> FALSE, mask |-> column.mask]
  IN IF bitmask.failed THEN CUDF_FAIL(should_never_be_called)
     ELSE [column EXCEPT !.mask = bitmask.mask]

\* specialization for dictionary
column_merger_dictionary_bitmask_always(lcol, rcol, row_order) ==
  LET result == dictionary_merge(lcol, rcol, row_order)
      bitmask == materialize_bitmask(lcol, rcol, result.mask, result.size, row_order)
  IN IF bitmask.failed THEN CUDF_FAIL(should_never_be_called)
     ELSE [result EXCEPT !.mask = bitmask.mask]

column_merger_dictionary(lcol, rcol, row_order) ==
  LET result == dictionary_merge(lcol, rcol, row_order)
      \* set the validity mask
      bitmask == IF has_nulls(lcol) \/ has_nulls(rcol)
                   THEN materialize_bitmask(lcol, rcol, result.mask, result.size, row_order)
                   ELSE [failed |-> FALSE, mask |-> result.mask]
  IN IF bitmask.failed THEN CUDF_FAIL(should_never_be_called)
     ELSE [result EXCEPT !.mask = bitmask.mask]

(***************************************************************************)
(* merge.cu: column_merger for struct columns, and the type dispatch.      *)
(***************************************************************************)
\* create_null_mask(size, mask_state::UNINITIALIZED): the words hold whatever
\* the allocation held; the kernel stores every word before any is read, so
\* the model shows them empty
create_null_mask_uninitialized(size) == [w \in 1..num_bitmask_words(size) |-> {}]

\* make_structs_column(num_rows, children, null_count, null_mask)
make_structs_column(num_rows_, child_columns, null_count_, null_mask) ==
  [type |-> STRUCT,
   size |-> num_rows_,
   data |-> <<>>,
   nullable |-> null_mask # <<>>,
   mask |-> null_mask,
   null_count |-> null_count_,
   children |-> child_columns]

\* the overload for the element types that are not rep-layout compatible
\* and have no specialization
column_merger_unsupported(lcol, rcol, row_order) ==
  CUDF_FAIL("Unsupported type for merge.")

RECURSIVE type_dispatcher(_, _, _)

column_merger_struct_children_concatenated(lcol, rcol, row_order) ==
  LET merged_children ==
        [i \in 1..Len(lcol.children) |->
           type_dispatcher(lcol.children[i], rcol.children[i],
                           side_index_generator(LEFT, lcol.size)
                             \o side_index_generator(RIGHT, rcol.size))]
      merged_size == lcol.size + rcol.size
      validity ==
        IF has_nulls(lcol) \/ has_nulls(rcol)
          THEN materialize_bitmask(lcol, rcol, create_null_mask_uninitialized(merged_size),
                                   merged_size, row_order).mask
          ELSE <<>>
  IN IF \E i \in 1..Len(merged_children) : threw(merged_children[i])
       THEN merged_children[Min({i \in 1..Len(merged_children) :
                                   threw(merged_children[i])})]
       ELSE make_structs_column(merged_size, merged_children,
                                lcol.null_count + rcol.null_count, validity)

column_merger_struct_validity_of_child(lcol, rcol, row_order) ==
  LET merged_children ==
        [i \in 1..Len(lcol.children) |->
           type_dispatcher(lcol.children[i], rcol.children[i], row_order)]
      merged_size == lcol.size + rcol.size
      validity == merged_children[Len(merged_children)].mask
  IN IF \E i \in 1..Len(merged_children) : threw(merged_children[i])
       THEN merged_children[Min({i \in 1..Len(merged_children) :
                                   threw(merged_children[i])})]
       ELSE make_structs_column(merged_size, merged_children,
                                lcol.null_count + rcol.null_count, validity)

column_merger_struct(lcol, rcol, row_order) ==
  LET merged_children ==
        [i \in 1..Len(lcol.children) |->
           type_dispatcher(lcol.children[i], rcol.children[i], row_order)]
      merged_size == lcol.size + rcol.size
      bitmask ==
        IF has_nulls(lcol) \/ has_nulls(rcol)
          THEN materialize_bitmask(lcol, rcol, create_null_mask_uninitialized(merged_size),
                                   merged_size, row_order)
          ELSE [failed |-> FALSE, mask |-> <<>>]
  IN \* an exception thrown while a child is merged leaves the function
     IF \E i \in 1..Len(merged_children) : threw(merged_children[i])
       THEN merged_children[Min({i \in 1..Len(merged_children) :
                                   threw(merged_children[i])})]
     ELSE IF bitmask.failed THEN CUDF_FAIL(should_never_be_called)
     ELSE make_structs_column(merged_size, merged_children,
                              lcol.null_count + rcol.null_count, bitmask.mask)

\* cudf::type_dispatcher<dispatch_storage_type>(lcol.type(), merger, ...)
type_dispatcher(lcol, rcol, row_order) ==
  IF lcol.type = STRUCT THEN column_merger_struct(lcol, rcol, row_order)
  ELSE IF lcol.type = STRING_VIEW THEN column_merger_string(lcol, rcol, row_order)
  ELSE IF lcol.type = DICTIONARY32 THEN column_merger_dictionary(lcol, rcol, row_order)
  ELSE IF lcol.type = LIST THEN column_merger_unsupported(lcol, rcol, row_order)
  ELSE column_merger(lcol, rcol, row_order)

(***************************************************************************)
(* merge.cu: the pairwise merge of two tables.                             *)
(***************************************************************************)
merge_pair(left_tbl, right_tbl, key_cols_, col_order, null_prec) ==
  LET index_left_view == select(left_tbl, key_cols_)
      index_right_view == select(right_tbl, key_cols_)
      indices == generate_merged_indices(index_left_view, index_right_view,
                                         col_order, null_prec)
      n_cols == num_columns(left_tbl)
      merged_cols == [c \in 1..n_cols |->
                        type_dispatcher(left_tbl[c], right_tbl[c], indices)]
      thrown == {c \in 1..n_cols : threw(merged_cols[c])}
  IN \* failed: a column_merger threw what, and merge returns no table
     [failed |-> thrown # {},
      what |-> IF thrown # {} THEN merged_cols[Min(thrown)].data[1] ELSE "",
      merged_indices |-> indices,
      table |-> merged_cols]

(***************************************************************************)
(* merge.cu: the N-way merge, detail::merge.                               *)
(***************************************************************************)
VARIABLES
  tables_to_merge,   \* argument: the input table views
  key_cols,          \* argument: 0-based key column indices
  column_order,      \* argument: one order per key column
  null_precedence,   \* argument: one null order per key column
  oob_null_order,    \* what a read past the end of null_precedence yields
  pc,                \* position in detail::merge
  merge_tables,      \* matched.second, the views after match_dictionaries
  merge_queue,       \* the priority queue, as the sequence of its items
  left_table,        \* the item popped first in the last loop iteration
  right_table,       \* the item popped second in the last loop iteration
  merged_indices,    \* the row order of the last pairwise merge
  num_merges,        \* pairwise merges performed so far
  result,            \* the returned table pointer, NoTable until the call returns
  error,             \* the message of the exception thrown, "" if none
  heap,              \* the tables allocated by the call, by address
  use_after_free,    \* a pairwise merge has read a view of a deleted table
  rows_merged,       \* rows of the tables the pairwise merges have produced
  match_calls,       \* calls of match_dictionaries made so far
  \* one launch of materialize_merged_bitmask_kernel, thread by thread
  launch,            \* the launch: grid, template arguments, kernel arguments
  device_validity,   \* the words out_validity points to, in device memory
  warp_pc,           \* per warp: the position of its threads in the kernel
  destination_row,   \* per warp: destination_row of lane 0; lane l holds l more
  active_threads,    \* per warp: the lanes of the last active_threads ballot
  source_bit_is_valid, \* per warp: the lanes whose source_bit_is_valid is true
  result_mask,       \* per warp: the value of the result_mask ballot
  stores,            \* per word of out_validity: the stores made, [thread, value]
  \* one string handed to both JSON string parsers
  json_pc,           \* "idle", "input" before and "parsed" after the parsers ran
  json_input,        \* the characters between the quotes
  sequential_result, \* what process_string yielded
  warp_result        \* what parse_fn_warp_parallel yielded

kernel_vars == <<launch, device_validity, warp_pc, destination_row, active_threads,
                 source_bit_is_valid, result_mask, stores>>

json_vars == <<json_pc, json_input, sequential_result, warp_result>>

merge_vars == <<tables_to_merge, key_cols, column_order, null_precedence, oob_null_order,
                pc, merge_tables, merge_queue, left_table, right_table, merged_indices,
                num_merges, result, error, heap, use_after_free, rows_merged,
                match_calls>>

vars == <<tables_to_merge, key_cols, column_order, null_precedence, oob_null_order,
          pc, merge_tables, merge_queue, left_table, right_table, merged_indices,
          num_merges, result, error, heap, use_after_free, rows_merged,
          match_calls, kernel_vars, json_vars>>

\* the memory resources: the caller's mr, and
\* rmm::mr::get_current_device_resource()
MR == "mr"
CURRENT_DEVICE_RESOURCE == "current_device_resource"
\* a table that holds no device memory
NO_RESOURCE == "none"

\* a non-null table_ptr_type: the table and its address in heap
table_ptr(tbl, address) == <<tbl, address>>

\* a std::make_unique<cudf::table>: a new address, never deleted so far
allocate(h, mr_) == Append(h, [mr |-> mr_, frees |-> 0])

\* ~unique_ptr: deletes the table owned, nothing for a null pointer
destroy(h, ptr) ==
  IF ptr = NoTable THEN h ELSE [h EXCEPT ![ptr[2]].frees = @ + 1]

alive(h, ptr) == ptr = NoTable \/ h[ptr[2]].frees = 0

\* ~priority_queue: every item left in the queue is destroyed
RECURSIVE destroy_queue(_, _)
destroy_queue(h, q) ==
  IF q = <<>> THEN h ELSE destroy_queue(destroy(h, Head(q).table), Tail(q))

NoItem == [view |-> <<>>, table |-> NoTable, priority |-> 0]

\* the null order the comparators read for key k
EffNullPrec ==
  [k \in 1..Len(key_cols) |->
     IF k <= Len(null_precedence) THEN null_precedence[k] ELSE oob_null_order]

\* merge_queue_item(view, table): priority is minus the row count
merge_queue_item_rows(view, table) ==
  [view |-> view, table |-> table, priority |-> num_rows(view)]

merge_queue_item(view, table) ==
  [view |-> view, table |-> table, priority |-> 0 - num_rows(view)]

\* merge_queue_item::operator<
item_less(a, b) == a.priority < b.priority

\* the positions std::priority_queue::top() may name: an item that is not
\* less than any other (which one among equal priorities is unspecified)
top_positions_any(q) == 1..Len(q)

top_positions_most_rows(q) ==
  {i \in 1..Len(q) : \A j \in 1..Len(q) : ~item_less(q[j], q[i])}

top_positions(q) ==
  {i \in 1..Len(q) : \A j \in 1..Len(q) : ~item_less(q[i], q[j])}

\* the queue after pop() of position i
pop_at_first(q, i) == [j \in 1..(Len(q) - 1) |-> q[j + 1]]

pop_at(q, i) == [j \in 1..(Len(q) - 1) |-> IF j < i THEN q[j] ELSE q[j + 1]]

\* top_and_pop(q) when top() is position i: the item is moved out, which
\* leaves a null table pointer in the queue's item, and pop() destroys that
top_and_pop_copies(q, h, i) ==
  LET moved == q[i]
      moved_from == q[i]
  IN [moved |-> moved, q |-> pop_at(q, i), heap |-> destroy(h, moved_from.table)]

top_and_pop(q, h, i) ==
  LET moved == q[i]
      moved_from == [q[i] EXCEPT !.table = NoTable]
  IN [moved |-> moved, q |-> pop_at(q, i), heap |-> destroy(h, moved_from.table)]

\* merge_queue.empty() ? mr : rmm::mr::get_current_device_resource()
new_tbl_mr_always_mr(q) == MR

new_tbl_mr(q) == IF Len(q) = 0 THEN MR ELSE CURRENT_DEVICE_RESOURCE

\* std::make_unique<cudf::table>(view, stream, mr): a deep copy
copy_table(view) == view

RECURSIVE empty_like_column(_)
empty_like_column(col) ==
  [type |-> col.type, size |-> 0, data |-> <<>>, nullable |-> FALSE,
   mask |-> <<>>, null_count |-> 0,
   children |-> [i \in 1..Len(col.children) |-> empty_like_column(col.children[i])]]

empty_like(tbl) == [c \in 1..Len(tbl) |-> empty_like_column(tbl[c])]

\* the first CUDF_EXPECTS of detail::merge that fails, "" if all hold
precondition_error_no_order_check(tables, keys, col_order) ==
  LET n_cols == num_columns(tables[1])
  IN IF \E t \in 1..Len(tables) : n_cols # num_columns(tables[t])
       THEN "Mismatched number of columns"
     ELSE IF \E t \in 1..Len(tables) : ~have_same_types(tables[1], tables[t])
       THEN "Mismatched column types"
     ELSE IF Len(keys) = 0 THEN "Empty key_cols"
     ELSE IF ~(Len(keys) <= n_cols) THEN "Too many values in key_cols"
     ELSE ""

precondition_error(tables, keys, col_order) ==
  LET n_cols == num_columns(tables[1])
  IN IF \E t \in 1..Len(tables) : n_cols # num_columns(tables[t])
       THEN "Mismatched number of columns"
     ELSE IF \E t \in 1..Len(tables) : ~have_same_types(tables[1], tables[t])
       THEN "Mismatched column types"
     ELSE IF Len(keys) = 0 THEN "Empty key_cols"
     ELSE IF ~(Len(keys) <= n_cols) THEN "Too many values in key_cols"
     ELSE IF Len(keys) # Len(col_order)
       THEN "Mismatched size between key_cols and column_order"
     ELSE ""

\* if (tables_to_merge.empty()) return std::make_unique<cudf::table>();
ReturnNoTables ==
  /\ pc = "start"
  /\ tables_to_merge = <<>>
  /\ heap' = allocate(heap, NO_RESOURCE)
  /\ result' = table_ptr(<<>>, Len(heap'))
  /\ pc' = "done"
  /\ UNCHANGED <<kernel_vars, json_vars, match_calls, rows_merged, tables_to_merge, key_cols, column_order, null_precedence,
                 oob_null_order, merge_tables, merge_queue, left_table, right_table,
                 merged_indices, num_merges, error, use_after_free>>

\* one of the CUDF_EXPECTS throws
FailPrecondition ==
  /\ pc = "start"
  /\ tables_to_merge # <<>>
  /\ precondition_error(tables_to_merge, key_cols, column_order) # ""
  /\ error' = precondition_error(tables_to_merge, key_cols, column_order)
  /\ pc' = "error"
  /\ UNCHANGED <<kernel_vars, json_vars, match_calls, rows_merged, tables_to_merge, key_cols, column_order, null_precedence,
                 oob_null_order, merge_tables, merge_queue, left_table, right_table,
                 merged_indices, num_merges, result, heap, use_after_free>>

\* dictionary::detail::match_dictionaries over the tables of a call: every
\* column that is dictionary-encoded gets, in every table, the sorted union
\* of the keys of that column over all tables, and indices that name the
\* same values as before; the other columns are the caller's views
match_dictionaries(tables) ==
  LET keys_of(c) ==
        MakeKeysColumn(UNION {{tables[t][c].children[1].data[k] :
                                 k \in 1..tables[t][c].children[1].size} :
                              t \in 1..Len(tables)})
      matched(col, keys) ==
        [col EXCEPT
           !.data = [i \in 1..col.size |->
                       IF is_valid(col, i - 1)
                         THEN index_of_key(keys, col.children[1].data[col.data[i] + 1])
                         ELSE 0],
           !.children = <<keys>>]
  IN [t \in 1..Len(tables) |->
        [c \in 1..num_columns(tables[t]) |->
           IF tables[t][c].type = DICTIONARY32
             THEN matched(tables[t][c], keys_of(c))
             ELSE tables[t][c]]]

\* the checks pass and match_dictionaries is called
MatchDictionaries ==
  /\ pc = "start"
  /\ tables_to_merge # <<>>
  /\ precondition_error(tables_to_merge, key_cols, column_order) = ""
  /\ merge_tables' = match_dictionaries(tables_to_merge)
  /\ match_calls' = match_calls + 1
  /\ pc' = "matched"
  /\ UNCHANGED <<kernel_vars, json_vars, rows_merged, tables_to_merge, key_cols, column_order, null_precedence,
                 oob_null_order, merge_queue, left_table, right_table,
                 merged_indices, num_merges, result, error, heap, use_after_free>>

\* the for_each that emplaces every table with rows, in input order
RECURSIVE populate_all(_, _)
populate_all(tables, t) ==
  IF t > Len(tables) THEN <<>>
  ELSE <<merge_queue_item(tables[t], NoTable)>> \o populate_all(tables, t + 1)

RECURSIVE populate(_, _)
populate(tables, t) ==
  IF t > Len(tables) THEN <<>>
  ELSE IF num_rows(tables[t]) > 0
    THEN <<merge_queue_item(tables[t], NoTable)>> \o populate(tables, t + 1)
    ELSE populate(tables, t + 1)

PopulateQueue_original_views ==
  /\ pc = "matched"
  /\ merge_queue' = populate(tables_to_merge, 1)
  /\ pc' = "queued"
  /\ UNCHANGED <<kernel_vars, json_vars, match_calls, rows_merged, tables_to_merge, key_cols, column_order,
                 null_precedence, oob_null_order, merge_tables, left_table,
                 right_table, merged_indices, num_merges, result, error, heap,
                 use_after_free>>

PopulateQueue ==
  /\ pc = "matched"
  /\ merge_queue' = populate(merge_tables, 1)
  /\ pc' = "queued"
  /\ UNCHANGED <<kernel_vars, json_vars, match_calls, rows_merged, tables_to_merge, key_cols, column_order, null_precedence,
                 oob_null_order, merge_tables, left_table, right_table,
                 merged_indices, num_merges, result, error, heap, use_after_free>>

\* if (merge_queue.size() == 1) return a copy of the only table with rows
ReturnCopy_first_table ==
  /\ pc = "queued"
  /\ Len(merge_queue) = 1
  /\ heap' = allocate(heap, MR)
  /\ result' = table_ptr(copy_table(merge_tables[1]), Len(heap'))
  /\ pc' = "done"
  /\ UNCHANGED <<kernel_vars, json_vars, match_calls, rows_merged, tables_to_merge, key_cols, column_order, null_precedence,
                 oob_null_order, merge_tables, merge_queue, left_table, right_table,
                 merged_indices, num_merges, error, use_after_free>>

ReturnCopy ==
  /\ pc = "queued"
  /\ Len(merge_queue) = 1
  /\ heap' = allocate(heap, MR)
  /\ result' = table_ptr(copy_table(merge_queue[1].view), Len(heap'))
  /\ pc' = "done"
  /\ UNCHANGED <<kernel_vars, json_vars, match_calls, rows_merged, tables_to_merge, key_cols, column_order, null_precedence,
                 oob_null_order, merge_tables, merge_queue, left_table, right_table,
                 merged_indices, num_merges, error, use_after_free>>

\* if (merge_queue.empty()) return empty_like(first_table);
ReturnEmptyLike_no_columns ==
  /\ pc = "queued"
  /\ Len(merge_queue) = 0
  /\ heap' = allocate(heap, CURRENT_DEVICE_RESOURCE)
  /\ result' = table_ptr(<<>>, Len(heap'))
  /\ pc' = "done"
  /\ UNCHANGED <<kernel_vars, json_vars, match_calls, rows_merged, tables_to_merge, key_cols, column_order, null_precedence,
                 oob_null_order, merge_tables, merge_queue, left_table, right_table,
                 merged_indices, num_merges, error, use_after_free>>

ReturnEmptyLike ==
  /\ pc = "queued"
  /\ Len(merge_queue) = 0
  /\ heap' = allocate(heap, CURRENT_DEVICE_RESOURCE)
  /\ result' = table_ptr(empty_like(tables_to_merge[1]), Len(heap'))
  /\ pc' = "done"
  /\ UNCHANGED <<kernel_vars, json_vars, match_calls, rows_merged, tables_to_merge, key_cols, column_order, null_precedence,
                 oob_null_order, merge_tables, merge_queue, left_table, right_table,
                 merged_indices, num_merges, error, use_after_free>>

\* the positions the loop may pop from: the items of highest priority, or,
\* for a pairing order other than the scheduler's, any item.
any_positions(q) == 1..Len(q)

pop_positions(any_order, q) ==
  IF any_order THEN any_positions(q) ELSE top_positions(q)

\* one iteration of the while loop: pop two, merge them, push the result,
\* and leave the block, which destroys right_table and then left_table.  A
\* column_merger that throws ends the call: the unwinding destroys the two
\* popped items and the queue.
LoopBody(any_order) ==
  /\ pc \in {"queued", "loop"}
  /\ Len(merge_queue) > 1
  /\ \E i \in pop_positions(any_order, merge_queue) :
     \E p1 \in {top_and_pop(merge_queue, heap, i)} :
     \E j \in pop_positions(any_order, p1.q) :
     \E p2 \in {top_and_pop(p1.q, p1.heap, j)} :
     \E m \in {merge_pair(p1.moved.view, p2.moved.view, key_cols, column_order,
                          EffNullPrec)} :
       LET l == p1.moved
           r == p2.moved
           h3 == allocate(p2.heap, new_tbl_mr(p2.q))
           merged_table == table_ptr(m.table, Len(h3))
       IN /\ left_table' = l
          /\ right_table' = r
          /\ merged_indices' = m.merged_indices
          /\ use_after_free' =
               (use_after_free \/ ~alive(p2.heap, l.table) \/ ~alive(p2.heap, r.table))
          /\ IF m.failed
               THEN /\ error' = m.what
                    /\ pc' = "error"
                    /\ merge_queue' = <<>>
                    /\ heap' = destroy_queue(
                                 destroy(destroy(p2.heap, r.table), l.table), p2.q)
                    /\ num_merges' = num_merges
                    /\ rows_merged' = rows_merged
               ELSE /\ error' = error
                    /\ pc' = "loop"
                    /\ merge_queue' =
                         Append(p2.q, merge_queue_item(m.table, merged_table))
                    /\ heap' = destroy(destroy(h3, r.table), l.table)
                    /\ num_merges' = num_merges + 1
                    /\ rows_merged' = rows_merged + num_rows(m.table)
  /\ UNCHANGED <<kernel_vars, json_vars, match_calls, tables_to_merge, key_cols, column_order,
                 null_precedence, oob_null_order, merge_tables, result>>

MergeStep == LoopBody(FALSE)

\* return std::move(top_and_pop(merge_queue).table);
ReturnMerged_after_first_merge ==
  /\ pc = "loop"
  /\ Len(merge_queue) >= 1
  /\ LET p == top_and_pop(merge_queue, heap, Len(merge_queue))
     IN /\ result' = p.moved.table
        /\ merge_queue' = p.q
        /\ heap' = p.heap
  /\ pc' = "done"
  /\ UNCHANGED <<kernel_vars, json_vars, match_calls, rows_merged, tables_to_merge, key_cols, column_order, null_precedence,
                 oob_null_order, merge_tables, left_table, right_table,
                 merged_indices, num_merges, error, use_after_free>>

ReturnMerged ==
  /\ pc = "loop"
  /\ Len(merge_queue) = 1
  /\ LET p == top_and_pop(merge_queue, heap, 1)
     IN /\ result' = p.moved.table
        /\ merge_queue' = p.q
        /\ heap' = p.heap
  /\ pc' = "done"
  /\ UNCHANGED <<kernel_vars, json_vars, match_calls, rows_merged, tables_to_merge, key_cols, column_order, null_precedence,
                 oob_null_order, merge_tables, left_table, right_table,
                 merged_indices, num_merges, error, use_after_free>>

Next ==
  \/ ReturnNoTables
  \/ FailPrecondition
  \/ MatchDictionaries
  \/ PopulateQueue
  \/ ReturnCopy
  \/ ReturnEmptyLike
  \/ MergeStep
  \/ ReturnMerged

(***************************************************************************)
(* The explored calls.  Every input table is sorted on the key columns     *)
(* under the orders the comparators will use, as merge requires.           *)
(***************************************************************************)
Orders == {ASCENDING, DESCENDING}

NullOrders == {BEFORE, AFTER}

\* a key cell: a value with its validity; a null cell holds the value 0
KeyCells ==
  {[v |-> 0, ok |-> FALSE]} \cup {[v |-> k, ok |-> TRUE] : k \in 1..MaxKey}

KeySeqs == UNION {[1..n -> KeyCells] : n \in 0..MaxRows}

KeyColumn(cells, masks) ==
  MakeColumn(INT32, [i \in 1..Len(cells) |-> cells[i].v],
             [i \in 1..Len(cells) |-> cells[i].ok],
             masks \/ \E i \in 1..Len(cells) : ~cells[i].ok)

\* the payload of row r (0-based) of input table t names its origin
PayloadColumn(t, valid, masks) ==
  MakeColumn(INT32, [i \in 1..Len(valid) |-> 10 * t + (i - 1)], valid,
             masks \/ \E i \in 1..Len(valid) : ~valid[i])

IsSortedTable(tbl, keys, col_order, null_prec) ==
  \A r \in 0..(num_rows(tbl) - 2) :
    ~self_comparator(select(tbl, keys), col_order, null_prec, r + 1, r)

SortedKeySeqs(ord, np) ==
  {cells \in KeySeqs :
     IsSortedTable(<<KeyColumn(cells, FALSE)>>, <<0>>, <<ord>>, <<np>>)}

AllValid(n) == [i \in 1..n |-> TRUE]

\* no kernel launch is followed thread by thread
NoLaunch ==
  /\ launch = <<>>
  /\ device_validity = <<>>
  /\ warp_pc = <<>>
  /\ destination_row = <<>>
  /\ active_threads = <<>>
  /\ source_bit_is_valid = <<>>
  /\ result_mask = <<>>
  /\ stores = <<>>

\* no string is handed to the JSON string parsers
NoString ==
  /\ json_pc = "idle"
  /\ json_input = <<>>
  /\ sequential_result = <<>>
  /\ warp_result = <<>>

\* detail::merge has not started
InitMerge ==
  /\ pc = "start"
  /\ merge_tables = <<>>
  /\ merge_queue = <<>>
  /\ left_table = NoItem
  /\ right_table = NoItem
  /\ merged_indices = <<>>
  /\ num_merges = 0
  /\ result = NoTable
  /\ error = ""
  /\ heap = <<>>
  /\ use_after_free = FALSE
  /\ rows_merged = 0
  /\ match_calls = 0

InitRest ==
  /\ InitMerge
  /\ NoLaunch
  /\ NoString

\* no call of merge is followed
NoCall ==
  /\ InitMerge
  /\ tables_to_merge = <<>>
  /\ key_cols = <<>>
  /\ column_order = <<>>
  /\ null_precedence = <<>>
  /\ oob_null_order = BEFORE

\* the key sequences without a null cell
ValidKeySeqs(ord) ==
  {cells \in SortedKeySeqs(ord, BEFORE) : \A i \in 1..Len(cells) : cells[i].ok}

\* the lists of n key sequences of S holding at most budget cells together
KeySeqLists(S, n, budget) ==
  LET row_counts == {r \in [1..n -> 0..MaxRows] : SumSeq(r) <= budget}
      RECURSIVE fill(_, _)
      fill(r, t) ==
        IF t > n THEN {<<>>}
        ELSE {<<c>> \o l : c \in {d \in S : Len(d) = r[t]}, l \in fill(r, t + 1)}
  IN UNION {fill(r, 1) : r \in row_counts}

\* up to MaxTables tables of a key column and an all-valid payload column,
\* holding at most MaxTotalRows rows together; the lists of MaxTables tables
\* are explored with nulls first and with keys up to top_key only
InitNWayIn(orders, null_orders, top_key) ==
  \E ord \in orders, np \in null_orders, n \in 0..MaxTables :
    /\ n = MaxTables => np = BEFORE
    /\ \E S \in {{cells \in SortedKeySeqs(ord, np) :
                   n = MaxTables => \A i \in 1..Len(cells) : cells[i].v <= top_key}} :
       \E f \in KeySeqLists(S, n, MaxTotalRows) :
      /\ tables_to_merge =
           [t \in 1..n |-> <<KeyColumn(f[t], FALSE),
                             PayloadColumn(t, AllValid(Len(f[t])), FALSE)>>]
      /\ key_cols = <<0>>
      /\ column_order = <<ord>>
      /\ null_precedence = <<np>>
      /\ oob_null_order = BEFORE

InitNWay == InitNWayIn(Orders, NullOrders, MaxKey - 1)

\* two tables, of at most MaxTotalRows + 1 rows together, whose keys are
\* valid and ascending and whose payload column has any validity pattern;
\* masks says whether columns without nulls carry a null mask all the same
InitPair ==
  \E masks \in BOOLEAN :
    \E S \in {ValidKeySeqs(ASCENDING)} :
    \E f \in KeySeqLists(S, 2, MaxTotalRows + 1) :
      \E v1 \in [1..Len(f[1]) -> BOOLEAN], v2 \in [1..Len(f[2]) -> BOOLEAN] :
        /\ tables_to_merge =
             <<<<KeyColumn(f[1], masks), PayloadColumn(1, v1, masks)>>,
               <<KeyColumn(f[2], masks), PayloadColumn(2, v2, masks)>>>>
        /\ key_cols = <<0>>
        /\ column_order = <<ASCENDING>>
        /\ null_precedence = <<BEFORE>>
        /\ oob_null_order = BEFORE

\* two tables, of at most MaxTotalRows rows together, of an ascending valid
\* key column and a struct column of two children: the struct rows have any
\* validity pattern, the first child is valid, the second child is valid or
\* null throughout
StructColumn(t, valid, child_valid) ==
  MakeStructColumn(
    <<PayloadColumn(t, AllValid(Len(valid)), FALSE),
      PayloadColumn(t, [i \in 1..Len(valid) |-> child_valid], FALSE)>>,
    valid, \E i \in 1..Len(valid) : ~valid[i])

InitStruct ==
  \E S \in {ValidKeySeqs(ASCENDING)} :
  \E f \in KeySeqLists(S, 2, MaxTotalRows) :
    \E v1 \in [1..Len(f[1]) -> BOOLEAN], v2 \in [1..Len(f[2]) -> BOOLEAN],
       c1 \in BOOLEAN, c2 \in BOOLEAN :
      /\ tables_to_merge =
           <<<<KeyColumn(f[1], FALSE), StructColumn(1, v1, c1)>>,
             <<KeyColumn(f[2], FALSE), StructColumn(2, v2, c2)>>>>
      /\ key_cols = <<0>>
      /\ column_order = <<ASCENDING>>
      /\ null_precedence = <<BEFORE>>
      /\ oob_null_order = BEFORE

\* up to MaxTables tables, of at most one row, of a key column and a column
\* no column_merger is defined for: a list column, or a struct column with a
\* list child
ListColumn(t, n) == MakeColumn(LIST, [i \in 1..n |-> 10 * t], AllValid(n), FALSE)

InitList ==
  \E n \in 1..MaxTables, nested \in BOOLEAN :
    \E rows \in [1..n -> 0..1] :
      /\ tables_to_merge =
           [t \in 1..n |->
              <<KeyColumn([i \in 1..rows[t] |-> [v |-> 1, ok |-> TRUE]], FALSE),
                IF nested
                  THEN MakeStructColumn(<<ListColumn(t, rows[t])>>,
                                        AllValid(rows[t]), FALSE)
                  ELSE ListColumn(t, rows[t])>>]
      /\ key_cols = <<0>>
      /\ column_order = <<ASCENDING>>
      /\ null_precedence = <<BEFORE>>
      /\ oob_null_order = BEFORE

\* calls whose null_precedence has not one entry per key column, over two
\* tables of at most one row
InitNullPrec ==
  \E ord \in Orders, oob \in NullOrders,
     nps \in {<<>>} \cup {<<a, b>> : a \in NullOrders, b \in NullOrders} :
    LET np == IF Len(nps) = 0 THEN oob ELSE nps[1]
    IN \E f \in [1..2 -> {cells \in SortedKeySeqs(ord, np) : Len(cells) <= 1}] :
         /\ tables_to_merge =
              [t \in 1..2 |-> <<KeyColumn(f[t], FALSE),
                                PayloadColumn(t, AllValid(Len(f[t])), FALSE)>>]
         /\ key_cols = <<0>>
         /\ column_order = <<ord>>
         /\ null_precedence = nps
         /\ oob_null_order = oob

\* calls with any shape of arguments, over tables of at most one row
ShapeTables ==
  {<<MakeColumn(INT32, [i \in 1..n |-> 1], AllValid(n), FALSE)>> : n \in 0..1}
  \cup
  {<<MakeColumn(INT32, [i \in 1..n |-> 1], AllValid(n), FALSE),
     MakeColumn(ty, [i \in 1..n |-> 1], AllValid(n), FALSE)>> :
     n \in 0..1, ty \in {INT32, FLOAT64}}

ShapeKeys == {<<>>, <<0>>, <<0, 1>>, <<0, 1, 0>>}

ShapeOrders == {<<>>, <<ASCENDING>>, <<ASCENDING, DESCENDING>>}

InitShapes ==
  \E n \in 0..2 :
    \E f \in [1..n -> ShapeTables], keys \in ShapeKeys, ords \in ShapeOrders :
      /\ tables_to_merge = f
      /\ key_cols = keys
      /\ column_order = ords
      /\ null_precedence = [k \in 1..Len(ords) |-> BEFORE]
      /\ oob_null_order = BEFORE

\* two to MaxTables tables that all have rows, of at most MaxTotalRows + 1
\* rows together, every row with the same key: the calls in which the order
\* of the pairwise merges decides how many rows they produce
InitSizes ==
  \E n \in 2..MaxTables :
    \E r \in {s \in [1..n -> 1..MaxRows] : SumSeq(s) <= MaxTotalRows + 1} :
      /\ tables_to_merge =
           [t \in 1..n |->
              <<KeyColumn([i \in 1..r[t] |-> [v |-> 1, ok |-> TRUE]], FALSE),
                PayloadColumn(t, AllValid(r[t]), FALSE)>>]
      /\ key_cols = <<0>>
      /\ column_order = <<ASCENDING>>
      /\ null_precedence = <<BEFORE>>
      /\ oob_null_order = BEFORE

\* a key column whose row i holds the key i, and a column of the values of
\* cells, null where a cell is null, as a strings column (the value v as the
\* string of v characters) or as a dictionary column
RowNumberKeys(n) == KeyColumn([i \in 1..n |-> [v |-> i, ok |-> TRUE]], FALSE)

EncodedColumn(type, cells) ==
  LET valid == [i \in 1..Len(cells) |-> cells[i].ok]
      nullable == \E i \in 1..Len(cells) : ~cells[i].ok
  IN IF type = DICTIONARY32
       THEN MakeDictionaryColumn([i \in 1..Len(cells) |-> cells[i].v], valid, nullable)
       ELSE MakeStringsColumn([i \in 1..Len(cells) |->
                                 [k \in 1..cells[i].v |-> cells[i].v]],
                              valid, nullable)

\* two tables, of at most MaxTotalRows rows together, of a key column and a
\* strings or dictionary column with any values and any validity pattern
InitEncodedPair ==
  \E type \in {STRING_VIEW, DICTIONARY32} :
    \E f \in KeySeqLists(KeySeqs, 2, MaxTotalRows) :
      /\ tables_to_merge =
           <<<<RowNumberKeys(Len(f[1])), EncodedColumn(type, f[1])>>,
             <<RowNumberKeys(Len(f[2])), EncodedColumn(type, f[2])>>>>
      /\ key_cols = <<0>>
      /\ column_order = <<ASCENDING>>
      /\ null_precedence = <<BEFORE>>
      /\ oob_null_order = BEFORE

\* three to MaxTables tables of one row: a key and a valid dictionary value
InitDictionaries ==
  \E n \in 3..MaxTables :
    \E d \in [1..n -> 1..MaxKey] :
      /\ tables_to_merge =
           [t \in 1..n |->
              <<RowNumberKeys(1),
                EncodedColumn(DICTIONARY32, <<[v |-> d[t], ok |-> TRUE]>>)>>]
      /\ key_cols = <<0>>
      /\ column_order = <<ASCENDING>>
      /\ null_precedence = <<BEFORE>>
      /\ oob_null_order = BEFORE

Init ==
  /\ InitRest
  /\ \/ InitNWay
     \/ InitPair
     \/ InitStruct
     \/ InitList
     \/ InitNullPrec
     \/ InitShapes
     \/ InitSizes
     \/ InitEncodedPair
     \/ InitDictionaries

Spec == Init /\ [][Next]_vars

(***************************************************************************)
(* The same calls with the loop taking any two items of the queue, in any  *)
(* order, instead of the two of highest priority: every order of pairwise  *)
(* merges of the input tables.                                             *)
(***************************************************************************)
MergeAnyPair == LoopBody(TRUE)

NextPairing ==
  \/ ReturnNoTables
  \/ FailPrecondition
  \/ MatchDictionaries
  \/ PopulateQueue
  \/ ReturnCopy
  \/ ReturnEmptyLike
  \/ MergeAnyPair
  \/ ReturnMerged

\* the calls explored in every pairing order: the lists of InitNWay in
\* ascending order with nulls first, and the calls of InitShapes
InitPairing ==
  /\ InitRest
  /\ \/ InitNWayIn({ASCENDING}, {BEFORE}, MaxKey)
     \/ InitShapes

SpecPairing == InitPairing /\ [][NextPairing]_vars

(***************************************************************************)
(* merge.cu: one launch of materialize_merged_bitmask_kernel, followed     *)
(* thread by thread.  The threads of a warp meet at every __ballot_sync;   *)
(* between two ballots a thread only reads the kernel's inputs and its own *)
(* registers, except lane 0, which stores one word.  A step is therefore   *)
(* what the threads of one warp do between two ballots, and the warps of   *)
(* the grid take their steps in any order.                                 *)
(***************************************************************************)
BLOCK_SIZE == 256

\* size_type is a 32-bit signed integer
INT32_MAX == 2147483647

\* destination_row += blockDim.x * gridDim.x, line 106: the sum is taken in
\* unsigned 32-bit arithmetic and converted back to size_type, so that a sum
\* above INT32_MAX comes out 2^32 lower
add_grid_stride(row, stride) ==
  IF row >= 0 /\ stride > INT32_MAX - row
    THEN (row - INT32_MAX - 1) + (stride - INT32_MAX - 1)
    ELSE row + stride

\* detail::grid_1d: enough blocks of num_threads_per_block threads to hold
\* overall_num_elements threads
grid_1d(overall_num_elements, num_threads_per_block) ==
  [num_threads_per_block |-> num_threads_per_block,
   num_blocks |-> (overall_num_elements + num_threads_per_block - 1)
                    \div num_threads_per_block]

\* the warps of the grid that are followed
Warps == launch.warps

Lanes == 0..(warpSize - 1)

\* threadIdx.x and blockIdx.x of lane lane of warp w
threadIdx(w, lane) == (w * warpSize + lane) % launch.blockDim

blockIdx(w, lane) == (w * warpSize + lane) \div launch.blockDim

\* the thread's number in the grid
global_thread(w, lane) == threadIdx(w, lane) + blockIdx(w, lane) * launch.blockDim

\* the thread's destination_row, lanes of a warp holding consecutive rows
row_of(w, lane) == destination_row[w] + lane

\* a row of the output: an index into merged_indices, and a bit of out_validity
in_bounds(row) == 0 <= row /\ row < launch.num_destination_rows

\* if (0 == threadIdx.x % warpSize): the threads that store the word
stores_word(thread_idx) == 0 = thread_idx % warpSize

\* the device view of a column whose row i is null when i is a multiple of
\* period, and which has no null mask when period is 0
PeriodicView(size, period) == [size |-> size, period |-> period]

view_has_nulls(view) == view.period # 0 /\ view.size > 0

\* column_device_view::is_valid_nocheck on such a view
view_is_valid_nocheck(view, row) == row % view.period # 0

\* merged_indices[i] of a row order that takes the rows of both columns in
\* turn while the left column has rows, and the rest of the right column
\* after them
alternating_index(left_size, i) ==
  IF i < 2 * left_size
    THEN IF i % 2 = 0 THEN <<LEFT, i \div 2>> ELSE <<RIGHT, (i - 1) \div 2>>
    ELSE <<RIGHT, i - left_size>>

\* lines 93-98: the validity of the source row of destination row row
read_source_bit(row) ==
  LET src_side == alternating_index(launch.left_dcol.size, row)[1]
      src_row == alternating_index(launch.left_dcol.size, row)[2]
      from_left == (src_side = LEFT)
  IN IF launch.left_have_valids /\ from_left
       THEN view_is_valid_nocheck(launch.left_dcol, src_row)
     ELSE IF launch.right_have_valids /\ ~from_left
       THEN view_is_valid_nocheck(launch.right_dcol, src_row)
     ELSE TRUE

\* __ballot_sync(mask, predicate): the lanes of mask whose predicate holds
ballot_sync(mask, lanes_with_predicate) == mask \cap lanes_with_predicate

\* while (destination_row < num_destination_rows), line 92, for the lanes
\* lanes of warp w: "body" when one of them enters the loop body, "done" when
\* all of them leave the kernel
while_test(w, lanes, first_row) ==
  IF \E lane \in lanes : first_row + lane < launch.num_destination_rows
    THEN "body" ELSE "done"

\* lines 87-92: destination_row is set, the first ballot over all lanes, and
\* the loop test
BallotActive(w) ==
  /\ warp_pc[w] = "start"
  /\ destination_row' =
       [destination_row EXCEPT ![w] = global_thread(w, 0)]
  /\ active_threads' =
       [active_threads EXCEPT ![w] =
          ballot_sync(Lanes, {lane \in Lanes :
                                global_thread(w, lane) < launch.num_destination_rows})]
  /\ warp_pc' = [warp_pc EXCEPT ![w] = while_test(w, Lanes, global_thread(w, 0))]
  /\ UNCHANGED <<merge_vars, json_vars, launch, device_validity,
                 source_bit_is_valid, result_mask, stores>>

\* lines 93-98: every lane in the loop reads merged_indices[destination_row]
\* and the validity of its source row.  A read of merged_indices outside its
\* num_destination_rows elements is undefined: the kernel faults, or the
\* thread goes on with whatever the address held
ReadSourceBit(w) ==
  /\ warp_pc[w] = "body"
  /\ LET inside == {lane \in active_threads[w] : in_bounds(row_of(w, lane))}
         outside == active_threads[w] \ inside
     IN \/ /\ \E garbage \in SUBSET outside :
                source_bit_is_valid' =
                  [source_bit_is_valid EXCEPT ![w] =
                     {lane \in inside : read_source_bit(row_of(w, lane))} \cup garbage]
           /\ warp_pc' = [warp_pc EXCEPT ![w] = "ballot"]
        \/ /\ outside # {}
           /\ warp_pc' = [warp_pc EXCEPT ![w] = "fault"]
           /\ UNCHANGED source_bit_is_valid
  /\ UNCHANGED <<merge_vars, json_vars, launch, device_validity, destination_row,
                 active_threads, result_mask, stores>>

\* line 101: the ballot of the lanes in the loop
BallotValid(w) ==
  /\ warp_pc[w] = "ballot"
  /\ result_mask' =
       [result_mask EXCEPT ![w] = ballot_sync(active_threads[w], source_bit_is_valid[w])]
  /\ warp_pc' = [warp_pc EXCEPT ![w] = "store"]
  /\ UNCHANGED <<merge_vars, json_vars, launch, device_validity, destination_row,
                 active_threads, source_bit_is_valid, stores>>

\* where a store through out_validity lands when its row is no row of the
\* output: some word that is not part of the mask
OUTSIDE_MASK == -1

store_address(row) == IF in_bounds(row) THEN word_index(row) ELSE OUTSIDE_MASK

\* line 104: the storing threads store result_mask into the word of their row
StoreWord(w) ==
  /\ warp_pc[w] = "store"
  /\ LET storing == {lane \in active_threads[w] : stores_word(threadIdx(w, lane))}
         into(word) == {lane \in storing : store_address(row_of(w, lane)) = word}
         lanes_into(word) == SortedSeq(into(word))
         stored == {store_address(row_of(w, lane)) : lane \in storing}
     IN /\ device_validity' =
             [word \in DOMAIN device_validity \cup stored |->
                IF word \in stored THEN result_mask[w] ELSE device_validity[word]]
        /\ stores' =
             [word \in DOMAIN stores \cup stored |->
                (IF word \in DOMAIN stores THEN stores[word] ELSE <<>>) \o
                  [k \in 1..Len(lanes_into(word)) |->
                     [thread |-> global_thread(w, lanes_into(word)[k]),
                      value |-> result_mask[w]]]]
  /\ warp_pc' = [warp_pc EXCEPT ![w] = "advance"]
  /\ UNCHANGED <<merge_vars, json_vars, launch, destination_row, active_threads,
                 source_bit_is_valid, result_mask>>

\* lines 106-107 and 92: the grid stride, the ballot of the lanes that go
\* on, and the loop test
Advance(w) ==
  /\ warp_pc[w] = "advance"
  /\ LET next_row == add_grid_stride(destination_row[w], launch.blockDim * launch.gridDim)
     IN /\ destination_row' = [destination_row EXCEPT ![w] = next_row]
        /\ active_threads' =
             [active_threads EXCEPT ![w] =
                ballot_sync(active_threads[w],
                            {lane \in Lanes : next_row + lane < launch.num_destination_rows})]
        /\ warp_pc' = [warp_pc EXCEPT ![w] = while_test(w, active_threads[w], next_row)]
  /\ UNCHANGED <<merge_vars, json_vars, launch, device_validity,
                 source_bit_is_valid, result_mask, stores>>

NextKernel ==
  \/ \E w \in Warps : BallotActive(w)
  \/ \E w \in Warps : ReadSourceBit(w)
  \/ \E w \in Warps : BallotValid(w)
  \/ \E w \in Warps : StoreWord(w)
  \/ \E w \in Warps : Advance(w)

\* the row counts of the launches followed: up to MaxWords words with a last
\* word that is full or holds a single row, and one more row than 2^30
KernelRowCounts ==
  {n \in 1..(MaxWords * warpSize) : n % warpSize <= 1} \cup {1073741825}

\* the rows a thread starting at row goes through in its loop
RECURSIVE rows_reached(_, _, _)
rows_reached(row, stride, num_destination_rows) ==
  IF row < num_destination_rows
    THEN {row} \cup rows_reached(add_grid_stride(row, stride), stride, num_destination_rows)
    ELSE {}

\* the warps followed: all of them in a grid of one block; in a larger grid
\* the first warp, the warp of the last row, and the warps that own the rows
\* which the thread of the last row goes through
followed_warps(grid_config, num_destination_rows) ==
  LET stride == grid_config.num_blocks * grid_config.num_threads_per_block
      last_row == num_destination_rows - 1
  IN IF grid_config.num_blocks = 1
       THEN 0..(stride \div warpSize - 1)
       ELSE {0, word_index(last_row)} \cup
            {word_index(row) :
               row \in {r \in rows_reached(last_row, stride, num_destination_rows) : r >= 0}}

\* the words of a device allocation nobody has written
UninitializedWords == {{}, Lanes}

\* materialize_bitmask, lines 116-138: the launch for two columns of which
\* one has nulls, over an output mask holding whatever the caller left in it
InitKernel ==
  /\ NoCall
  /\ NoString
  /\ \E n \in KernelRowCounts, periods \in {<<2, 0>>, <<0, 3>>, <<3, 2>>},
        old_word \in UninitializedWords :
       LET left_col == PeriodicView(n \div 2, periods[1])
           right_col == PeriodicView(n - n \div 2, periods[2])
           grid_config == grid_1d(n, BLOCK_SIZE)
           warps == followed_warps(grid_config, n)
       IN /\ view_has_nulls(left_col) \/ view_has_nulls(right_col)
          /\ launch = [gridDim |-> grid_config.num_blocks,
                       blockDim |-> grid_config.num_threads_per_block,
                       warps |-> warps,
                       left_have_valids |-> view_has_nulls(left_col),
                       right_have_valids |-> view_has_nulls(right_col),
                       left_dcol |-> left_col,
                       right_dcol |-> right_col,
                       num_destination_rows |-> n,
                       old_word |-> old_word]
          /\ device_validity = <<>>
          /\ stores = <<>>
          /\ warp_pc = [w \in warps |-> "start"]
          /\ destination_row = [w \in warps |-> 0]
          /\ active_threads = [w \in warps |-> {}]
          /\ source_bit_is_valid = [w \in warps |-> {}]
          /\ result_mask = [w \in warps |-> {}]

SpecKernel == InitKernel /\ [][NextKernel]_vars

(***************************************************************************)
(* merge.cuh: the JSON string parsers.  A character is a one-character     *)
(* string, an input the sequence of its characters with the quotes, an     *)
(* output the sequence of the bytes written, as numbers.                   *)
(***************************************************************************)
WARP_THRESHOLD == 1024

UNICODE_ESC_PREFIX == 2

UNICODE_HEX_DIGIT_COUNT == 4

NUM_UNICODE_ESC_SEQ_CHARS == UNICODE_ESC_PREFIX + UNICODE_HEX_DIGIT_COUNT

UTF16_HIGH_SURROGATE_BEGIN == 55296

UTF16_HIGH_SURROGATE_END == 56320

UTF16_LOW_SURROGATE_BEGIN == 56320

UTF16_LOW_SURROGATE_END == 57344

\* the chars 0x7F and 0x7E
UNICODE_SEQ == "DEL"

NON_ESCAPE_CHAR == "~"

PARSING_SUCCESS == "PARSING_SUCCESS"

PARSING_FAILURE == "PARSING_FAILURE"

backslash_char == "\\"

\* options.quotechar, and options.keepquotes
quotechar == "\""

keepquotes == FALSE

\* the characters of the explored strings: the backslash, an escape letter,
\* the u, four hex digits and a character that is none of these
HexDigits == {"0", "8", "C", "D"}

Alphabet == {backslash_char, "n", "u", "x"} \cup HexDigits

\* the byte of a character
ord(ch) ==
  CASE ch = "\\" -> 92
    [] ch = "\"" -> 34
    [] ch = "/" -> 47
    [] ch = "\n" -> 10
    [] ch = "n" -> 110
    [] ch = "u" -> 117
    [] ch = "x" -> 120
    [] ch = "0" -> 48
    [] ch = "8" -> 56
    [] ch = "C" -> 67
    [] ch = "D" -> 68

get_escape_char(escaped_char) ==
  CASE escaped_char = "\"" -> "\""
    [] escaped_char = "\\" -> "\\"
    [] escaped_char = "/" -> "/"
    [] escaped_char = "n" -> "\n"
    [] escaped_char = "u" -> UNICODE_SEQ
    [] OTHER -> NON_ESCAPE_CHAR

is_hex(ch) == ch \in HexDigits

\* the value of a hex digit
hex_digit(ch) ==
  CASE ch = "0" -> 0
    [] ch = "8" -> 8
    [] ch = "C" -> 12
    [] ch = "D" -> 13

\* the character at the 0-based position i of str
char_at(str, i) == str[i + 1]

\* parse_unicode_hex(str + from): the value of the four hex digits at from,
\* -1 when one of them is no hex digit
parse_unicode_hex(str, from) ==
  IF \A k \in 0..(UNICODE_HEX_DIGIT_COUNT - 1) : is_hex(char_at(str, from + k))
    THEN hex_digit(char_at(str, from)) * 4096 + hex_digit(char_at(str, from + 1)) * 256
         + hex_digit(char_at(str, from + 2)) * 16 + hex_digit(char_at(str, from + 3))
    ELSE -1

\* strings::detail::codepoint_to_utf8 and from_char_utf8: the UTF-8 bytes of
\* a code point
codepoint_to_utf8(code_point) ==
  IF code_point < 128 THEN <<code_point>>
  ELSE IF code_point < 2048
    THEN <<192 + (code_point \div 64), 128 + (code_point % 64)>>
  ELSE IF code_point < 65536
    THEN <<224 + (code_point \div 4096), 128 + ((code_point \div 64) % 64),
           128 + (code_point % 64)>>
  ELSE <<240 + (code_point \div 262144), 128 + ((code_point \div 4096) % 64),
         128 + ((code_point \div 64) % 64), 128 + (code_point % 64)>>

\* the code point of a UTF-16 surrogate pair
surrogate_pair(hex_val, hex_low_val) ==
  65536 + (hex_val - UTF16_HIGH_SURROGATE_BEGIN) * 1024
        + (hex_low_val - UTF16_LOW_SURROGATE_BEGIN)

is_surrogate_pair(hex_val, hex_low_val) ==
  /\ hex_val >= UTF16_HIGH_SURROGATE_BEGIN /\ hex_val < UTF16_HIGH_SURROGATE_END
  /\ hex_low_val >= UTF16_LOW_SURROGATE_BEGIN /\ hex_low_val < UTF16_LOW_SURROGATE_END

\* String values are indicated by keeping the quote character
is_string_value(in) ==
  /\ Len(in) >= 2
  /\ in[1] = quotechar /\ in[Len(in)] = quotechar

\* the range of the characters processed: without the quotes
string_range(in) == IF keepquotes THEN in ELSE SubSeq(in, 2, Len(in) - 1)

\* the byte sequence of a sequence of characters
bytes_of(chars) == [k \in 1..Len(chars) |-> ord(chars[k])]

\* the while loop of process_string from the position at of str, with the
\* escape flag and the bytes written so far
RECURSIVE process_string_loop(_, _, _, _)
process_string_loop(str, at, escape, out) ==
  IF at = Len(str)
    THEN [result |-> IF escape THEN PARSING_FAILURE ELSE PARSING_SUCCESS,
          bytes |-> Len(out), out |-> out]
  ELSE IF ~escape
    THEN IF char_at(str, at) = backslash_char
           THEN process_string_loop(str, at + 1, TRUE, out)
           ELSE process_string_loop(str, at + 1, FALSE, Append(out, ord(char_at(str, at))))
  ELSE LET escaped_char == get_escape_char(char_at(str, at))
           fail == [result |-> PARSING_FAILURE, bytes |-> Len(out), out |-> out]
       IN IF escaped_char = NON_ESCAPE_CHAR THEN fail
          ELSE IF escaped_char # UNICODE_SEQ
            THEN process_string_loop(str, at + 1, FALSE, Append(out, ord(escaped_char)))
          ELSE IF Len(str) - (at + 1) < UNICODE_HEX_DIGIT_COUNT THEN fail
          ELSE LET hex_val == parse_unicode_hex(str, at + 1)
                   next == at + 1 + UNICODE_HEX_DIGIT_COUNT
                   hex_low_val ==
                     IF /\ Len(str) - next >= NUM_UNICODE_ESC_SEQ_CHARS
                        /\ char_at(str, next) = backslash_char
                        /\ char_at(str, next + 1) = "u"
                       THEN parse_unicode_hex(str, next + 2)
                       ELSE 0
               IN IF hex_val < 0 THEN fail
                  ELSE IF is_surrogate_pair(hex_val, hex_low_val)
                    THEN process_string_loop(str, next + NUM_UNICODE_ESC_SEQ_CHARS, FALSE,
                           out \o codepoint_to_utf8(surrogate_pair(hex_val, hex_low_val)))
                    ELSE process_string_loop(str, next, FALSE,
                           out \o codepoint_to_utf8(hex_val))

\* process_string(in_begin, in_end, d_buffer, options)
process_string(in) ==
  IF ~is_string_value(in)
    THEN [result |-> PARSING_SUCCESS, bytes |-> Len(in), out |-> bytes_of(in)]
    ELSE process_string_loop(string_range(in), 0, FALSE, <<>>)

\* the char '\0'
NUL == "NUL"

\* the character loop of parse_fn_warp_parallel, lines 555-680, from the
\* iteration whose lane 0 holds the position first of str: every lane takes
\* one character, the lanes vote on an error, scan for the escaping
\* backslashes and for the output offsets, and write their bytes
RECURSIVE warp_string_loop(_, _, _, _)
warp_string_loop(str, first, init_state, out) ==
  LET len == Len(str)
      is_within_bounds(char_index) == char_index < len
      c(char_index) ==
        IF is_within_bounds(char_index) THEN char_at(str, char_index) ELSE NUL
      prev_c(char_index) ==
        IF char_index > 0 /\ is_within_bounds(char_index)
          THEN char_at(str, char_index - 1) ELSE NUL
      escaped_char(char_index) == get_escape_char(c(char_index))
      lane_error(char_index) ==
        /\ is_within_bounds(char_index)
        /\ \/ c(char_index) = "\\" /\ char_index = len - 1
           \/ prev_c(char_index) = "\\" /\ escaped_char(char_index) = NON_ESCAPE_CHAR
           \/ /\ prev_c(char_index) = "\\"
              /\ c(char_index) = "u"
              /\ \/ char_index + UNICODE_HEX_DIGIT_COUNT >= len
                 \/ \E k \in 1..UNICODE_HEX_DIGIT_COUNT : ~is_hex(char_at(str, char_index + k))
      \* one of the four characters after a backslash and a u
      after_unicode_prefix(char_index) ==
        \E k \in 2..5 :
          /\ char_index - k >= 0
          /\ char_at(str, char_index - k) = "\\"
          /\ char_at(str, char_index - k + 1) = "u"
      \* the inclusive scan of the state table: a backslash not preceded by
      \* an escaping backslash is an escaping backslash
      RECURSIVE is_escaping_backslash(_)
      is_escaping_backslash(char_index) ==
        LET previous == IF char_index = first THEN init_state
                        ELSE is_escaping_backslash(char_index - 1)
        IN IF previous THEN FALSE
           ELSE is_within_bounds(char_index) /\ c(char_index) = "\\"
      skip(char_index) ==
        \/ ~is_within_bounds(char_index)
        \/ after_unicode_prefix(char_index)
        \/ is_escaping_backslash(char_index)
      \* the bytes the lane writes, this_num_out of them
      written(char_index) ==
        IF skip(char_index) THEN <<>>
        ELSE IF prev_c(char_index) # "\\" THEN <<ord(c(char_index))>>
        ELSE IF escaped_char(char_index) # UNICODE_SEQ
          THEN <<ord(escaped_char(char_index))>>
        ELSE LET hex_val == parse_unicode_hex(str, char_index + 1)
                 hex_low_val ==
                   IF /\ char_index + 4 + 6 < len
                      /\ char_at(str, char_index + 1 + 4) = "\\"
                      /\ char_at(str, char_index + 1 + 5) = "u"
                     THEN parse_unicode_hex(str, char_index + 1 + 6)
                     ELSE 0
             IN IF is_surrogate_pair(hex_val, hex_low_val)
                  THEN codepoint_to_utf8(surrogate_pair(hex_val, hex_low_val))
                ELSE IF /\ hex_val >= UTF16_LOW_SURROGATE_BEGIN
                        /\ hex_val < UTF16_LOW_SURROGATE_END
                  THEN <<>>
                ELSE codepoint_to_utf8(hex_val)
      \* the exclusive sum of this_num_out puts the bytes of the lanes one
      \* after the other
      RECURSIVE written_from(_)
      written_from(char_index) ==
        IF char_index >= first + warpSize THEN <<>>
        ELSE written(char_index) \o written_from(char_index + 1)
  IN IF first >= len
       THEN [failed |-> FALSE, bytes |-> Len(out), out |-> out]
     ELSE IF \E char_index \in first..(first + warpSize - 1) : lane_error(char_index)
       THEN [failed |-> TRUE, bytes |-> 0, out |-> <<>>]
     ELSE warp_string_loop(str, first + warpSize,
                           is_escaping_backslash(first + warpSize - 1),
                           out \o written_from(first))

\* what parse_fn_warp_parallel makes of one string of at most WARP_THRESHOLD
\* characters that is neither null nor the null literal: failed when it
\* clears the string's bit of the null mask, and else the offset and the
\* characters it writes
parse_fn_warp_parallel(in) ==
  IF ~is_string_value(in)
    THEN [failed |-> FALSE, bytes |-> Len(in), out |-> bytes_of(in)]
    ELSE warp_string_loop(string_range(in), 0, FALSE, <<>>)

\* the longest explored string over Alphabet, in characters between the quotes
MaxChars == 3

RECURSIVE StringsOver(_, _)
StringsOver(S, n) ==
  IF n = 0 THEN {<<>>}
  ELSE StringsOver(S, n - 1) \cup
       {Append(str, ch) : str \in StringsOver(S, n - 1), ch \in S}

\* the \uXXXX sequences over HexDigits
UnicodeEscapes ==
  {<<backslash_char, "u">> \o digits : digits \in [1..UNICODE_HEX_DIGIT_COUNT -> HexDigits]}

\* the explored strings: every string of at most MaxChars characters, every
\* \uXXXX sequence, and the pairs of two sequences of surrogates
JsonStrings ==
  StringsOver(Alphabet, MaxChars) \cup UnicodeEscapes \cup
  {first \o second :
     first \in {<<backslash_char, "u", "D", "8", "0", "0">>,
                <<backslash_char, "u", "D", "C", "0", "0">>},
     second \in {<<backslash_char, "u", "D", "C", "0", "8">>,
                 <<backslash_char, "u", "D", "8", "0", "0">>,
                 <<backslash_char, "u", "0", "0", "C", "D">>}}

InitJson ==
  /\ NoCall
  /\ NoLaunch
  /\ json_pc = "input"
  /\ json_input \in JsonStrings
  /\ sequential_result = <<>>
  /\ warp_result = <<>>

\* the string goes through process_string, and through parse_fn_warp_parallel
ParseString ==
  /\ json_pc = "input"
  /\ WARP_THRESHOLD >= Len(json_input) + 2
  /\ sequential_result' = process_string(<<quotechar>> \o json_input \o <<quotechar>>)
  /\ warp_result' = parse_fn_warp_parallel(<<quotechar>> \o json_input \o <<quotechar>>)
  /\ json_pc' = "parsed"
  /\ UNCHANGED <<merge_vars, kernel_vars, json_input>>

NextJson == ParseString

SpecJson == InitJson /\ [][NextJson]_vars

(***************************************************************************)
(* Properties.                                                             *)
(***************************************************************************)
Returned == pc = "done" /\ result # NoTable

Result == result[1]

\* the views merged by the last loop iteration, and its output
LeftView == left_table.view

RightView == right_table.view

LeftKeys == select(LeftView, key_cols)

RightKeys == select(RightView, key_cols)

MergedTable == merge_queue[Len(merge_queue)].view

Merged == pc = "loop" /\ Len(merge_queue) > 0

TaggedIndices ==
  {<<LEFT, i>> : i \in 0..(num_rows(LeftView) - 1)}
  \cup {<<RIGHT, j>> : j \in 0..(num_rows(RightView) - 1)}

PositionsOf(x) == {p \in 1..Len(merged_indices) : merged_indices[p] = x}

\* the key table and row a tagged index names
KeysOf(x) == IF x[1] = LEFT THEN LeftKeys ELSE RightKeys

TaggedCompare(a, b) ==
  RowCompare(KeysOf(a), a[2], KeysOf(b), b[2], column_order, EffNullPrec)

\* the payload column of every input table names the origin of its rows
PayloadNamesOrigin ==
  \A t \in 1..Len(tables_to_merge) :
    /\ Len(tables_to_merge[t]) = 2
    /\ tables_to_merge[t][2].type = INT32
    /\ \A r \in 0..(num_rows(tables_to_merge[t]) - 1) :
         tables_to_merge[t][2].data[r + 1] = 10 * t + r

\* C1: the table merge returns is sorted on the key columns: no row sorts
\* strictly before the row that precedes it, under the column orders and
\* null orders of the call
C1_OutputSorted ==
  Returned => IsSortedTable(Result, key_cols, column_order, EffNullPrec)

C1_Witness ==
  /\ Returned
  /\ num_merges = 2
  /\ num_rows(Result) >= 3
  /\ column_order = <<DESCENDING>>
  /\ has_nulls(Result[1])
  /\ \E r \in 0..(num_rows(Result) - 2) :
       self_comparator(select(Result, key_cols), column_order, EffNullPrec, r, r + 1)

\* C2: the row count of the returned table is the sum of the row counts of
\* all input tables
C2_RowCount ==
  Returned =>
    num_rows(Result) =
      SumSeq([t \in 1..Len(tables_to_merge) |-> num_rows(tables_to_merge[t])])

C2_Witness ==
  /\ Returned
  /\ num_merges = 1
  /\ Len(tables_to_merge) = 3
  /\ num_rows(Result) = 3
  /\ \E t \in 1..Len(tables_to_merge) : num_rows(tables_to_merge[t]) = 0

\* C3: the merged index sequence of a pairwise merge is a permutation of the
\* tagged indices of its two tables: its length is the sum of the two row
\* counts and every tagged index of either side occurs in it exactly once
C3_IndicesPermutation ==
  Merged =>
    /\ Len(merged_indices) = num_rows(LeftView) + num_rows(RightView)
    /\ \A x \in TaggedIndices : Cardinality(PositionsOf(x)) = 1

C3_Witness ==
  /\ Merged
  /\ num_rows(LeftView) = 2
  /\ num_rows(RightView) = 2
  /\ merged_indices[1][1] = RIGHT
  /\ merged_indices[4][1] = RIGHT

\* C4: merging exactly two non-empty tables [A, B], every row of A comes in
\* the output before every row of B whose key compares equal to it, for any
\* row counts of A and B; stated for the calls in which A has more rows than
\* B, where the order of the two pops does not depend on how the priority
\* queue orders items of equal priority
C4_FirstListedBeforeEqual ==
  (/\ Returned
   /\ Len(tables_to_merge) = 2
   /\ PayloadNamesOrigin
   /\ num_rows(tables_to_merge[2]) > 0
   /\ num_rows(tables_to_merge[1]) > num_rows(tables_to_merge[2]))
  => \A p, q \in 0..(num_rows(Result) - 1) :
       (/\ Result[2].data[p + 1] \div 10 = 1
        /\ Result[2].data[q + 1] \div 10 = 2
        /\ RowCompare(select(Result, key_cols), p, select(Result, key_cols), q,
                      column_order, EffNullPrec) = "EQUIVALENT")
       => p < q

\* C5: a pairwise merge is stable with the left table preferred: a LEFT
\* index precedes every RIGHT index whose key compares equal, and two indices
\* of one side keep their row order
C5_StableLeftFirst ==
  Merged =>
    \A p, q \in 1..Len(merged_indices) :
      LET a == merged_indices[p]
          b == merged_indices[q]
      IN /\ (a[1] = LEFT /\ b[1] = RIGHT /\ TaggedCompare(a, b) = "EQUIVALENT")
              => p < q
         /\ (a[1] = b[1] /\ a[2] < b[2]) => p < q

C5_Witness ==
  /\ Merged
  /\ num_rows(LeftView) = 2
  /\ num_rows(RightView) = 2
  /\ \A a, b \in TaggedIndices : TaggedCompare(a, b) = "EQUIVALENT"

\* C6: on any two tagged indices of a pairwise merge, whatever their sides,
\* the tagged comparator is true exactly when the row the first one names
\* sorts strictly before the row the second one names
C6_TaggedComparator ==
  Merged =>
    \A a, b \in TaggedIndices :
      row_lexicographic_tagged_comparator(LeftKeys, RightKeys, column_order,
                                          EffNullPrec, a, b)
        = (TaggedCompare(a, b) = "LESS")

C6_Witness ==
  /\ Merged
  /\ \E a, b \in TaggedIndices :
       /\ a[1] = RIGHT
       /\ b[1] = LEFT
       /\ row_lexicographic_tagged_comparator(LeftKeys, RightKeys, column_order,
                                              EffNullPrec, a, b)
  /\ \E a, b \in TaggedIndices :
       /\ a[1] = RIGHT
       /\ b[1] = LEFT
       /\ TaggedCompare(a, b) = "EQUIVALENT"
  /\ \E a, b \in TaggedIndices :
       /\ a[1] = RIGHT
       /\ b[1] = LEFT
       /\ TaggedCompare(a, b) = "GREATER"

\* the source column and row that destination row i of column c comes from
SourceColumn(c, i) ==
  IF merged_indices[i + 1][1] = LEFT THEN LeftView[c] ELSE RightView[c]

\* C7: in every column of a pairwise merge's output, destination row i is
\* valid exactly when row merged[i] of the source column of its side is valid
\* (a source column without a mask being all valid)
C7_ValidityFollowsIndices ==
  Merged =>
    \A c \in 1..Len(MergedTable) :
      \A i \in 0..(MergedTable[c].size - 1) :
        is_valid(MergedTable[c], i)
          = is_valid(SourceColumn(c, i), merged_indices[i + 1][2])

C7_Witness ==
  /\ Merged
  /\ num_rows(LeftView) = 2
  /\ num_rows(RightView) = 2
  /\ LeftView[2].null_count = 1
  /\ RightView[2].null_count = 1
  /\ ~is_valid(LeftView[2], 1)
  /\ ~is_valid(RightView[2], 0)
  /\ merged_indices[1][1] = RIGHT

\* C8: the null count of every column of the returned table is the sum of
\* the null counts of that column over all input tables, and it is the
\* number of rows of the column whose validity bit is clear
C8_NullCount ==
  Returned =>
    \A c \in 1..Len(Result) :
      /\ Result[c].null_count =
           SumSeq([t \in 1..Len(tables_to_merge) |-> tables_to_merge[t][c].null_count])
      /\ Result[c].null_count = CountNulls(Result[c])

C8_Witness ==
  /\ Returned
  /\ num_merges = 2
  /\ Len(tables_to_merge) = 3
  /\ \A t \in 1..3 : tables_to_merge[t][1].null_count = 1
  /\ Result[1].null_count = 3

\* the preconditions detail::merge checks
DifferingColumnCounts ==
  \E s, t \in 1..Len(tables_to_merge) :
    num_columns(tables_to_merge[s]) # num_columns(tables_to_merge[t])

DifferingTypes ==
  \E s, t \in 1..Len(tables_to_merge) :
    \E c \in 1..Len(tables_to_merge[s]) :
      c <= Len(tables_to_merge[t]) /\ tables_to_merge[s][c].type # tables_to_merge[t][c].type

TooManyKeys ==
  \E t \in 1..Len(tables_to_merge) : Len(key_cols) > num_columns(tables_to_merge[t])

ViolatesChecked ==
  \/ DifferingColumnCounts
  \/ DifferingTypes
  \/ key_cols = <<>>
  \/ TooManyKeys
  \/ Len(column_order) # Len(key_cols)

Rejected == pc \in {"start", "error"} /\ result = NoTable /\ num_merges = 0

\* C9 (as stated): a call with any list of tables that violates a checked
\* precondition fails, returns no table and performs no pairwise merge
C9_AnyListRejected == ViolatesChecked => Rejected

\* C9 (amended): a call with a non-empty list of tables that violates a
\* checked precondition fails with the message of the first failed check,
\* returns no table and performs no pairwise merge
C9_NonEmptyListRejected ==
  (tables_to_merge # <<>> /\ ViolatesChecked) =>
    /\ Rejected
    /\ pc = "error" => error # ""

C9_Witness ==
  /\ pc = "error"
  /\ Len(tables_to_merge) = 2
  /\ ~DifferingColumnCounts
  /\ ~DifferingTypes
  /\ key_cols = <<0>>
  /\ Len(column_order) = 2
  /\ error = "Mismatched size between key_cols and column_order"

\* C10: a call whose null_precedence length differs from the key_cols length
\* (and that breaks no other precondition) is rejected: it never returns a
\* table
C10_NullOrderLengthRejected ==
  (/\ tables_to_merge # <<>>
   /\ ~ViolatesChecked
   /\ Len(null_precedence) # Len(key_cols))
  => ~Returned

(***************************************************************************)
(* Column types without a merge strategy.                                  *)
(***************************************************************************)
RECURSIVE has_no_merge_strategy(_)
has_no_merge_strategy(col) ==
  \/ col.type = LIST
  \/ \E i \in 1..Len(col.children) : has_no_merge_strategy(col.children[i])

HasUnsupportedColumn ==
  \E t \in 1..Len(tables_to_merge) :
    \E c \in 1..Len(tables_to_merge[t]) : has_no_merge_strategy(tables_to_merge[t][c])

\* the input tables that have rows
TablesWithRows == {t \in 1..Len(tables_to_merge) : num_rows(tables_to_merge[t]) > 0}

\* C11: a call whose tables hold a column of a type without a merge strategy
\* never returns a table, however many of the tables have rows; here for the
\* calls in which exactly one table has rows
C11_UnsupportedTypeFatal ==
  HasUnsupportedColumn /\ Cardinality(TablesWithRows) = 1 => ~Returned

(***************************************************************************)
(* The returns without a pairwise merge.                                   *)
(***************************************************************************)
OnlyTableWithRows == tables_to_merge[CHOOSE t \in TablesWithRows : TRUE]

\* C12: when exactly one input table has rows, the call performs no pairwise
\* merge and returns a table it has newly allocated with the caller's memory
\* resource, equal to that input table row for row
C12_SingleTableCopied ==
  Returned /\ Cardinality(TablesWithRows) = 1 =>
    /\ num_merges = 0
    /\ Result = OnlyTableWithRows
    /\ heap = <<[mr |-> MR, frees |-> 0]>>
    /\ result[2] = 1

C12_Witness ==
  /\ Returned
  /\ Len(tables_to_merge) = 3
  /\ TablesWithRows = {2}
  /\ num_rows(tables_to_merge[2]) = 2
  /\ heap[result[2]].mr = MR

\* two columns have the same type, and so have their children
RECURSIVE same_schema_column(_, _)
same_schema_column(a, b) ==
  /\ a.type = b.type
  /\ Len(a.children) = Len(b.children)
  /\ \A i \in 1..Len(a.children) : same_schema_column(a.children[i], b.children[i])

same_schema(a, b) ==
  /\ num_columns(a) = num_columns(b)
  /\ \A c \in 1..num_columns(a) : same_schema_column(a[c], b[c])

\* C13: a call with at least one table, none of which has rows, returns a
\* table of zero rows with the column types of the first table; a call with
\* no tables returns a table with no columns
C13_EmptyHandling ==
  Returned =>
    /\ (tables_to_merge # <<>> /\ TablesWithRows = {} =>
          /\ num_merges = 0
          /\ same_schema(Result, tables_to_merge[1])
          /\ \A c \in 1..num_columns(Result) : Result[c].size = 0)
    /\ (tables_to_merge = <<>> => num_columns(Result) = 0)

C13_Witness ==
  /\ Returned
  /\ Len(tables_to_merge) = 2
  /\ TablesWithRows = {}
  /\ num_columns(Result) = 2
  /\ Result[2].type = STRUCT
  /\ Len(Result[2].children) = 2

(***************************************************************************)
(* The N-way merge against the other orders of pairwise merges.            *)
(***************************************************************************)
\* the content of row r of a column: its validity, and its value or, for a
\* struct column, the content of row r of every child
RECURSIVE cell(_, _)
cell(col, r) ==
  [ok |-> is_valid(col, r),
   v |-> IF col.type = STRUCT
           THEN [i \in 1..Len(col.children) |-> cell(col.children[i], r)]
           ELSE col.data[r + 1]]

\* the rows of a table, in order
Rows(tbl) ==
  [i \in 1..num_rows(tbl) |-> [c \in 1..num_columns(tbl) |-> cell(tbl[c], i - 1)]]

CountRow(rows, row) == Cardinality({i \in 1..Len(rows) : rows[i] = row})

SameRowBag(a, b) ==
  /\ Len(a) = Len(b)
  /\ \A i \in 1..Len(a) : CountRow(a, a[i]) = CountRow(b, a[i])

\* the input tables that have rows, in input order
RECURSIVE InputsWithRows(_)
InputsWithRows(t) ==
  IF t > Len(tables_to_merge) THEN <<>>
  ELSE IF num_rows(tables_to_merge[t]) > 0
    THEN <<tables_to_merge[t]>> \o InputsWithRows(t + 1)
    ELSE InputsWithRows(t + 1)

\* the pairwise merges of the input tables that have rows, taken in input
\* order: ((T1 + T2) + T3) + ...
RECURSIVE MergeInOrder(_, _)
MergeInOrder(acc, S) ==
  IF S = <<>> THEN acc
  ELSE MergeInOrder(
         merge_pair(acc, Head(S), key_cols, column_order, EffNullPrec).table, Tail(S))

InOrderResult == MergeInOrder(Head(InputsWithRows(1)), Tail(InputsWithRows(1)))

\* no row of one input table has the key of a row of another input table
KeyRow(tbl, r) == [k \in 1..Len(key_cols) |-> cell(tbl[key_cols[k] + 1], r)]

NoKeyInTwoTables ==
  \A s, t \in 1..Len(tables_to_merge) :
    s # t =>
      \A i \in 1..num_rows(tables_to_merge[s]), j \in 1..num_rows(tables_to_merge[t]) :
        KeyRow(tables_to_merge[s], i - 1) # KeyRow(tables_to_merge[t], j - 1)

C15_StructChildrenFollowIndices ==
  Merged =>
    \A c \in 1..Len(MergedTable) :
      MergedTable[c].type = STRUCT =>
        /\ Len(MergedTable[c].children) = Len(LeftView[c].children)
        /\ \A k \in 1..Len(MergedTable[c].children) :
             /\ MergedTable[c].children[k].size = Len(merged_indices)
             /\ \A i \in 0..(Len(merged_indices) - 1) :
                  cell(MergedTable[c].children[k], i)
                    = cell(SourceColumn(c, i).children[k], merged_indices[i + 1][2])

C15_Witness ==
  /\ Merged
  /\ MergedTable[2].type = STRUCT
  /\ Len(MergedTable[2].children) = 2
  /\ Len(merged_indices) = 3
  /\ merged_indices[1][1] = RIGHT
  /\ merged_indices[2][1] = LEFT
  /\ merged_indices[3][1] = RIGHT
  /\ MergedTable[2].children[2].null_count = 1
  /\ MergedTable[2].children[1].data = <<20, 10, 21>>

(***************************************************************************)
(* The scheduler loop.                                                     *)
(***************************************************************************)
NumWithRows == Cardinality(TablesWithRows)

\* C16: when two or more input tables have rows, the table of the last
\* pairwise merge, the one that finds the queue empty after its two pops, is
\* allocated with the caller's memory resource and is the one returned, and
\* the table of every earlier pairwise merge is allocated with the current
\* device resource
C16_OnlyFinalMergeUsesCallerAllocator ==
  /\ pc = "loop" =>
       /\ Len(heap) = num_merges
       /\ heap[Len(heap)].mr =
            (IF Len(merge_queue) = 1 THEN MR ELSE CURRENT_DEVICE_RESOURCE)
  /\ Returned /\ NumWithRows >= 2 =>
       /\ Len(heap) = num_merges
       /\ result[2] = Len(heap)
       /\ heap[Len(heap)].mr = MR
       /\ \A a \in 1..(Len(heap) - 1) : heap[a].mr = CURRENT_DEVICE_RESOURCE

C16_Witness ==
  /\ Returned
  /\ num_merges = 2
  /\ heap = <<[mr |-> CURRENT_DEVICE_RESOURCE, frees |-> 1], [mr |-> MR, frees |-> 0]>>

\* C17: in every loop iteration the item popped first has at most the rows
\* of the item popped second, which has at most the rows of every item left
\* in the queue
C17_TwoSmallestPopped ==
  Merged =>
    /\ num_rows(LeftView) <= num_rows(RightView)
    /\ \A k \in 1..(Len(merge_queue) - 1) :
         num_rows(RightView) <= num_rows(merge_queue[k].view)

C17_Witness ==
  /\ Merged
  /\ num_rows(LeftView) < num_rows(RightView)
  /\ tables_to_merge[2] = LeftView
  /\ tables_to_merge[1] = RightView

\* the queue positions whose item owns a table, and the addresses they own
Owners == {k \in 1..Len(merge_queue) : merge_queue[k].table # NoTable}

OwnedAddresses == {merge_queue[k].table[2] : k \in Owners}

\* C19: a queue item of an input table owns no table and the item of a
\* pairwise merge's result owns that result; no two items own one table; a
\* table is alive while an item in the queue owns it and while a pairwise
\* merge reads its view; after every loop iteration each table that has left
\* the queue has been deleted exactly once; the table returned has not been
\* deleted and every other table has, once
C19_IntermediateTableLifetime ==
  /\ ~use_after_free
  /\ \A a \in 1..Len(heap) : heap[a].frees <= 1
  /\ \A k \in 1..Len(merge_queue) :
       IF k \in Owners
         THEN /\ merge_queue[k].table[2] \in 1..Len(heap)
              /\ heap[merge_queue[k].table[2]].frees = 0
              /\ merge_queue[k].table[1] = merge_queue[k].view
              /\ \A j \in Owners : j # k => merge_queue[j].table[2] # merge_queue[k].table[2]
         ELSE \E t \in TablesWithRows : merge_tables[t] = merge_queue[k].view
  /\ pc = "queued" => Owners = {} /\ heap = <<>>
  /\ pc = "loop" =>
       /\ Len(merge_queue) \in Owners
       /\ \A a \in 1..Len(heap) : a \notin OwnedAddresses => heap[a].frees = 1
  /\ Returned /\ num_merges >= 1 =>
       /\ heap[result[2]].frees = 0
       /\ \A a \in 1..Len(heap) : a # result[2] => heap[a].frees = 1

C19_Witness ==
  /\ pc = "loop"
  /\ num_merges = 2
  /\ right_table.table # NoTable
  /\ left_table.table = NoTable
  /\ heap[right_table.table[2]].frees = 1
  /\ Owners = {1}

\* C20: every item in the queue has a view of at least one row and the
\* priority minus the row count of its view; the queue starts with the
\* views of the input tables that have rows and no others; both tables of
\* every pairwise merge have rows
C20_QueueItemsHaveRows ==
  /\ \A k \in 1..Len(merge_queue) :
       /\ num_rows(merge_queue[k].view) > 0
       /\ merge_queue[k].priority = 0 - num_rows(merge_queue[k].view)
  /\ pc = "queued" =>
       [k \in 1..Len(merge_queue) |-> merge_queue[k].view]
         = SelectSeq(merge_tables, LAMBDA tbl : num_rows(tbl) > 0)
  /\ num_merges >= 1 => num_rows(LeftView) > 0 /\ num_rows(RightView) > 0

C20_Witness ==
  /\ pc = "loop"
  /\ Len(tables_to_merge) = 3
  /\ num_rows(tables_to_merge[2]) = 0
  /\ num_merges = 1
  /\ Len(merge_queue) = 1
  /\ merge_queue[1].priority = 0 - 3

LoopProgress ==
  NumWithRows >= 2 =>
    /\ pc \in {"queued", "loop"} => Len(merge_queue) = NumWithRows - num_merges
    /\ pc = "loop" /\ Len(merge_queue) = 1 => merge_queue[1].table # NoTable
    /\ Returned =>
         /\ num_merges = NumWithRows - 1
         /\ merge_queue = <<>>
         /\ result[2] = num_merges
         /\ num_rows(Result) = SumSeq([t \in 1..Len(tables_to_merge) |->
                                        num_rows(tables_to_merge[t])])

\* the loop can take its next step: with more than one item in the queue
\* there are two items to pop, and with one item the call returns
LoopCanStep ==
  IF Len(merge_queue) > 1
    THEN \E i \in top_positions(merge_queue) :
           top_positions(pop_at(merge_queue, i)) # {}
    ELSE Len(merge_queue) = 1 \/ pc = "queued"

\* C18: with k >= 2 input tables that have rows, the queue holds k items
\* less one per pairwise merge done, and in the loop the call always has a
\* next step, so the loop ends after k - 1 merges; the one item then left
\* owns a table, the table of the last merge, which is the table returned
C18_LoopEndsAfterKMinusOneMerges ==
  /\ LoopProgress
  /\ pc \in {"queued", "loop"} => LoopCanStep

C18_Witness ==
  /\ Returned
  /\ NumWithRows = 3
  /\ num_merges = 2
  /\ result[2] = 2
(***************************************************************************)
(* Column materialization.                                                 *)
(***************************************************************************)
is_fixed_width(col) == col.type \in {INT32, FLOAT64}

\* C24: every fixed-width column of a pairwise merge's output has as many
\* rows as the two source columns together and holds, at every destination
\* row i, the value of the row merged[i] names in the source column of its
\* side; the source columns read after the merge are the input views
C24_FixedWidthValuesFollowIndices ==
  Merged =>
    /\ \A c \in 1..Len(MergedTable) :
         is_fixed_width(LeftView[c]) =>
           /\ MergedTable[c].size = LeftView[c].size + RightView[c].size
           /\ Len(MergedTable[c].data) = MergedTable[c].size
           /\ \A i \in 0..(MergedTable[c].size - 1) :
                MergedTable[c].data[i + 1]
                  = SourceColumn(c, i).data[merged_indices[i + 1][2] + 1]
    /\ left_table.table = NoTable =>
         \E t \in 1..Len(merge_tables) : merge_tables[t] = LeftView
    /\ right_table.table = NoTable =>
         \E t \in 1..Len(merge_tables) : merge_tables[t] = RightView

C24_Witness ==
  /\ Merged
  /\ is_fixed_width(LeftView[2])
  /\ left_table.table = NoTable
  /\ right_table.table = NoTable
  /\ Len(merged_indices) = 3
  /\ merged_indices[1][1] = RIGHT
  /\ merged_indices[2][1] = LEFT
  /\ merged_indices[3][1] = RIGHT
  /\ MergedTable[2].data[1] = RightView[2].data[1]
  /\ MergedTable[2].data[2] = LeftView[2].data[1]
  /\ MergedTable[2].data[1] # MergedTable[2].data[2]

\* C23: a fixed-width output column whose two source columns have no null,
\* with or without a mask on either, has a mask exactly when the right
\* source has one, that mask has the bit of every destination row set, and
\* every destination row reads as valid
C23_MaskAllValidWithoutNulls ==
  Merged =>
    \A c \in 1..Len(MergedTable) :
      is_fixed_width(LeftView[c]) /\ ~has_nulls(LeftView[c]) /\ ~has_nulls(RightView[c]) =>
        /\ MergedTable[c].nullable = RightView[c].nullable
        /\ MergedTable[c].nullable =>
             MergedTable[c].mask = set_null_mask_valid(MergedTable[c].size)
        /\ ~MergedTable[c].nullable => MergedTable[c].mask = <<>>
        /\ MergedTable[c].null_count = 0
        /\ \A i \in 0..(MergedTable[c].size - 1) : is_valid(MergedTable[c], i)

C23_Witness ==
  /\ Merged
  /\ is_fixed_width(LeftView[2])
  /\ LeftView[2].nullable /\ ~has_nulls(LeftView[2])
  /\ RightView[2].nullable /\ ~has_nulls(RightView[2])
  /\ MergedTable[2].nullable
  /\ MergedTable[2].size = 3
  /\ \A i \in 0..2 : is_valid_nocheck(MergedTable[2], i)

\* a struct column with every row of every child made valid
RECURSIVE children_all_valid(_)
children_all_valid(col) ==
  [col EXCEPT !.children =
     [k \in 1..Len(col.children) |->
        LET child == children_all_valid(col.children[k])
        IN [child EXCEPT !.nullable = FALSE, !.mask = <<>>, !.null_count = 0]]]

\* C25: the mask of a merged struct column is the struct-level validity of
\* the source rows the merged indices name: it is absent when neither source
\* struct column has nulls, whatever nulls the children hold, and it is the
\* mask the same merge yields when every child row is valid
C25_StructValidityIgnoresChildren ==
  Merged =>
    \A c \in 1..Len(MergedTable) :
      MergedTable[c].type = STRUCT =>
        /\ MergedTable[c].nullable = (has_nulls(LeftView[c]) \/ has_nulls(RightView[c]))
        /\ ~MergedTable[c].nullable => MergedTable[c].mask = <<>>
        /\ MergedTable[c].nullable =>
             MergedTable[c].mask =
               MaskOf([i \in 1..MergedTable[c].size |->
                         is_valid(SourceColumn(c, i - 1), merged_indices[i][2])])
        /\ \E without \in {column_merger_struct(children_all_valid(LeftView[c]),
                                                children_all_valid(RightView[c]),
                                                merged_indices)} :
             /\ without.mask = MergedTable[c].mask
             /\ without.nullable = MergedTable[c].nullable
             /\ without.null_count = MergedTable[c].null_count

C25_Witness ==
  /\ Merged
  /\ MergedTable[2].type = STRUCT
  /\ ~has_nulls(LeftView[2])
  /\ ~has_nulls(RightView[2])
  /\ MergedTable[2].size = 3
  /\ MergedTable[2].children[2].null_count = 3
  /\ MergedTable[2].mask = <<>>

(***************************************************************************)
(* The rows held by the queue.                                             *)
(***************************************************************************)
QueueRows == SumSeq([i \in 1..Len(merge_queue) |-> num_rows(merge_queue[i].view)])

InputRows ==
  SumSeq([t \in 1..Len(tables_to_merge) |-> num_rows(tables_to_merge[t])])

\* C29: before the first loop iteration and after every iteration the items
\* of the queue hold together as many rows as the input tables; an iteration
\* leaves one item less than it found, and the item it inserts holds as many
\* rows as the two items it removed together
C29_QueueRowsConserved ==
  /\ pc \in {"queued", "loop"} => QueueRows = InputRows
  /\ pc \in {"queued", "loop"} => Len(merge_queue) = NumWithRows - num_merges
  /\ Merged =>
       /\ num_rows(MergedTable) = num_rows(LeftView) + num_rows(RightView)
       /\ merge_queue[Len(merge_queue)].priority
            = left_table.priority + right_table.priority

C29_Witness ==
  /\ Merged
  /\ num_merges = 1
  /\ Len(merge_queue) = 2
  /\ NumWithRows = 3
  /\ QueueRows = 3
  /\ num_rows(MergedTable) = 2

(***************************************************************************)
(* Configuration errors.                                                   *)
(***************************************************************************)
\* C26: a call that ends in an error has generated no merged index sequence
\* and has performed no pairwise merge
C26_ErrorBeforeAnyKernel ==
  pc = "error" => merged_indices = <<>> /\ num_merges = 0

(***************************************************************************)
(* The cost of a pairing order.                                            *)
(***************************************************************************)
\* the row counts left when the tables of row counts s[i] and s[j] are merged
merge_sizes(s, i, j) ==
  LET rest == {k \in 1..Len(s) : k # i /\ k # j}
      RECURSIVE keep(_)
      keep(k) ==
        IF k > Len(s) THEN <<>>
        ELSE IF k \in rest THEN <<s[k]>> \o keep(k + 1) ELSE keep(k + 1)
  IN Append(keep(1), s[i] + s[j])

\* the rows produced by each way of reducing tables of row counts s to one
\* table by successive pairwise merges
RECURSIVE PairingCosts(_)
PairingCosts(s) ==
  IF Len(s) <= 1 THEN {0}
  ELSE UNION {{s[p[1]] + s[p[2]] + c : c \in PairingCosts(merge_sizes(s, p[1], p[2]))} :
                p \in {q \in (1..Len(s)) \X (1..Len(s)) : q[1] < q[2]}}

RECURSIVE RowCountsWithRows(_)
RowCountsWithRows(t) ==
  IF t > Len(tables_to_merge) THEN <<>>
  ELSE IF num_rows(tables_to_merge[t]) > 0
    THEN <<num_rows(tables_to_merge[t])>> \o RowCountsWithRows(t + 1)
    ELSE RowCountsWithRows(t + 1)

\* C27: when the call returns, its pairwise merges have produced together no
\* more rows than any way of reducing the input tables that have rows to one
\* table by successive pairwise merges
C27_SmallestFirstMinimizesRows ==
  Returned =>
    \A c \in PairingCosts(RowCountsWithRows(1)) : rows_merged <= c

C27_Witness ==
  /\ Returned
  /\ NumWithRows = 3
  /\ InputRows = 4
  /\ rows_merged = 6
  /\ 7 \in PairingCosts(RowCountsWithRows(1))

(***************************************************************************)
(* Dictionary columns.                                                     *)
(***************************************************************************)
ChecksPass ==
  /\ tables_to_merge # <<>>
  /\ precondition_error(tables_to_merge, key_cols, column_order) = ""

IsMatchedView(view) == \E t \in 1..Len(merge_tables) : merge_tables[t] = view

\* C28: a call whose checks pass calls match_dictionaries once, on all input
\* tables, when it leaves the checks: no call is made before or without
\* passing the checks, and the queue is empty and no pairwise merge is done
\* until the call is made; every view the queue is populated with, every
\* view of an input table a pairwise merge reads and the view the
\* single-table copy is made of is one of the views match_dictionaries
\* returned
C28_DictionariesMatchedOnce ==
  /\ pc = "start" => match_calls = 0 /\ merge_tables = <<>>
  /\ ~ChecksPass => match_calls = 0 /\ merge_tables = <<>> /\ num_merges = 0
  /\ ChecksPass /\ pc # "start" =>
       /\ match_calls = 1
       /\ merge_tables = match_dictionaries(tables_to_merge)
  /\ pc = "matched" => merge_queue = <<>> /\ num_merges = 0 /\ heap = <<>>
  /\ \A k \in 1..Len(merge_queue) :
       merge_queue[k].table = NoTable => IsMatchedView(merge_queue[k].view)
  /\ num_merges >= 1 =>
       /\ left_table.table = NoTable => IsMatchedView(LeftView)
       /\ right_table.table = NoTable => IsMatchedView(RightView)
  /\ Returned /\ NumWithRows = 1 =>
       Result = copy_table(merge_tables[CHOOSE t \in TablesWithRows : TRUE])

C28_Witness ==
  /\ pc = "loop"
  /\ num_merges = 1
  /\ match_calls = 1
  /\ left_table.table = NoTable
  /\ right_table.table = NoTable
  /\ num_columns(LeftView) = 2
  /\ LeftView[2].type = DICTIONARY32
  /\ \A t \in 1..Len(tables_to_merge) :
       /\ tables_to_merge[t] # LeftView
       /\ tables_to_merge[t] # RightView
       /\ tables_to_merge[t][2].children[1].size = 1
  /\ LeftView[2].children[1].size = 2
  /\ MergedTable[2].children[1].data = <<1, 2>>

(***************************************************************************)
(* The bitmask merge.                                                      *)
(***************************************************************************)
\* the pairs of columns a pairwise merge of the views l and r dispatches a
\* column_merger on: the columns of the two views, and the children of
\* their struct columns
RECURSIVE DispatchedPairs(_, _)
DispatchedPairs(l, r) ==
  UNION {{<<l[c], r[c]>>}
           \cup (IF l[c].type = STRUCT
                   THEN DispatchedPairs(l[c].children, r[c].children)
                   ELSE {}) :
         c \in 1..Len(l)}

\* C21: no call ends in the failure materialize_bitmask raises for two
\* columns without nulls, so no column_merger calls it for such a pair; for
\* every pair of columns without nulls a pairwise merge has dispatched,
\* whatever their type, the call of materialize_bitmask fails and leaves the
\* output mask as it was
C21_BitmaskMergeNeedsNulls ==
  /\ error # should_never_be_called
  /\ left_table # NoItem =>
       \A pair \in DispatchedPairs(LeftView, RightView) :
         ~has_nulls(pair[1]) /\ ~has_nulls(pair[2]) =>
           \E out \in {create_null_mask_uninitialized(pair[1].size + pair[2].size)} :
           \E bitmask \in {materialize_bitmask(pair[1], pair[2], out,
                                               pair[1].size + pair[2].size,
                                               merged_indices)} :
             /\ bitmask.failed
             /\ bitmask.mask = out

C21_Witness ==
  /\ Merged
  /\ num_columns(LeftView) = 2
  /\ LeftView[2].type = DICTIONARY32
  /\ ~has_nulls(LeftView[2])
  /\ ~has_nulls(RightView[2])
  /\ MergedTable[2].size = 3
  /\ MergedTable[2].mask = <<>>
  /\ error = ""



\* every followed warp of the launch has left the kernel
KernelDone == launch # <<>> /\ \A w \in Warps : warp_pc[w] \in {"done", "fault"}

\* the mask words with a row whose warp is followed
FollowedWords == {w \in Warps : w * warpSize < launch.num_destination_rows}

\* the stores made into word so far
stores_into(word) == IF word \in DOMAIN stores THEN stores[word] ELSE <<>>

\* the word the rows 32 * word .. 32 * word + 31 call for: the source
\* validity of the rows below num_destination_rows, 0 at the other bits
ballot_of_rows(word) ==
  {bit \in Lanes :
     /\ word * warpSize + bit < launch.num_destination_rows
     /\ read_source_bit(word * warpSize + bit)}

\* what the stores made so far have to be: none outside the mask, at most one
\* into a word, that one by lane 0 of the warp that holds the word's 32 rows
\* and of the ballot of those rows; and one into every word when the kernel
\* has ended
StoredOnceByLaneZero ==
  /\ \A word \in DOMAIN stores :
       /\ word # OUTSIDE_MASK
       /\ Len(stores[word]) <= 1
       /\ \A k \in 1..Len(stores[word]) :
            /\ stores[word][k].thread = word * warpSize
            /\ stores[word][k].value = ballot_of_rows(word)
            /\ device_validity[word] = stores[word][k].value
  /\ KernelDone => \A word \in FollowedWords : Len(stores_into(word)) = 1

\* the column a view stands for
PeriodicColumn(view) ==
  MakeColumn(INT32, [i \in 1..view.size |-> i],
             [i \in 1..view.size |-> view.period = 0 \/ (i - 1) % view.period # 0],
             view.period # 0)

\* C22: in any order of the warps' steps and for any number of destination
\* rows, a word of the output mask is stored at most once, only by lane 0 of
\* the warp that holds its 32 rows, as one whole word holding the ballot of
\* those rows' source validity with the bits past the last destination row
\* 0, and no thread stores anywhere else; when the kernel has ended every
\* word has been stored exactly once
C22_EachWordStoredOnceByLaneZero ==
  launch # <<>> => StoredOnceByLaneZero

\* the same for the launches whose grid leaves destination_row below 2^31,
\* where the mask is also the one the merge takes the kernel to produce
StoredOnceInOneBlock ==
  launch # <<>> /\ launch.gridDim = 1 =>
    /\ StoredOnceByLaneZero
    /\ warp_pc[0] # "fault"
    /\ KernelDone =>
         [w \in 1..num_bitmask_words(launch.num_destination_rows) |-> device_validity[w - 1]] =
           materialize_merged_bitmask_kernel(
             launch.left_have_valids, launch.right_have_valids,
             PeriodicColumn(launch.left_dcol), PeriodicColumn(launch.right_dcol),
             create_null_mask_uninitialized(launch.num_destination_rows),
             launch.num_destination_rows,
             [i \in 1..launch.num_destination_rows |->
                alternating_index(launch.left_dcol.size, i - 1)])

\* a launch over 33 rows has ended: two warps stored a word each, the second
\* one a word with a single row, of a column that has nulls
StoredOnceInOneBlock_Witness ==
  /\ KernelDone
  /\ launch.num_destination_rows = warpSize + 1
  /\ launch.right_have_valids
  /\ Len(stores_into(0)) = 1 /\ Len(stores_into(1)) = 1
  /\ stores[0][1].value \notin {{}, Lanes}
  /\ device_validity[1] \subseteq {0}

\* C30: for every quoted string the warp-parallel kernel fails exactly when
\* process_string returns PARSING_FAILURE, and otherwise writes the same
\* number of bytes and the same bytes
C30_WarpParallelMatchesProcessString ==
  json_pc = "parsed" =>
    /\ warp_result.failed <=> sequential_result.result = PARSING_FAILURE
    /\ ~warp_result.failed =>
         /\ warp_result.bytes = sequential_result.bytes
         /\ warp_result.out = sequential_result.out
====
